---- MODULE Spec2Model ----
(***************************************************************************)
(* Guardfin: the client's SecureCrypto and Database classes                *)
(* (src/client/app.js), the AI agent's request path, and the server's      *)
(* sync route (src/unnamed/part_001).                                      *)
(*                                                                         *)
(* Time is counted in ticks of one second.  An await of the code is a      *)
(* point where other callbacks may run, so every async function is cut     *)
(* into one action per stretch of code between two awaits.                 *)
(***************************************************************************)
EXTENDS Integers, Sequences, FiniteSets, TLC

(* ------------------------------ bounds -------------------------------- *)

\* Mutations (save/update/delete calls) issued in one run.
MaxOps ==
    3

\* Largest initialisation vector value drawn by encrypt (ivs are 0..MaxIv).
MaxSyncCount ==
    1

MaxIv ==
    1

(* ------------------------- program constants -------------------------- *)

\* setTimeout(..., 2000): the debounce delay, in ticks of one second.
DebounceTicks ==
    2

\* PBKDF2 iteration count of deriveKey and createVerifier.
Iterations ==
    250000

\* Bits asked of PBKDF2 by deriveKey (AES-GCM length) and createVerifier.
KeyBits ==
    256

\* JS null for the string-valued fields (accountId, salt, userDB).
NULL ==
    "null"

\* A Date / Date.now() value; wall-clock values are not distinguished.
Timestamp ==
    "ts"

Passphrases ==
    {"p1", "p2"}

Salts ==
    {"s1", "s2"}

Names ==
    {"Alex"}

IVs ==
    0..MaxIv

\* The record types of the application and the group each is synced in.
Types ==
    {"transaction", "bill", "goal", "budget", "reminder"}

(* ------------------------------ helpers ------------------------------- *)

Range(s) ==
    {s[i] : i \in DOMAIN s}

RemoveAt(s, i) ==
    SubSeq(s, 1, i - 1) \o SubSeq(s, i + 1, Len(s))

Min(a, b) ==
    IF a < b THEN a ELSE b

(* --------------------------- SecureCrypto ----------------------------- *)

\* PBKDF2 as an ideal function: its output is determined by, and only by,
\* the password, salt, iteration count, hash and output length.
PBKDF2(passphrase, salt, iterations, hash, bits) ==
    <<"PBKDF2", hash, iterations, bits, salt, passphrase>>

\* this.key = null
NullKey ==
    [algorithm |-> "null", length |-> 0, material |-> <<>>]

\* deriveKey: crypto.subtle.deriveKey runs PBKDF2 for `length` bits and
\* imports them as a non-extractable AES-GCM key.
deriveKey(passphrase, salt) ==
    [algorithm |-> "AES-GCM", length |-> KeyBits,
     material |-> PBKDF2(passphrase, salt, Iterations, "SHA-256", KeyBits)]

\* createVerifier: crypto.subtle.deriveBits, returned as a byte array.
createVerifier(passphrase, salt) ==
    PBKDF2(passphrase, salt, Iterations, "SHA-256", KeyBits)

\* A comparison that looks at the lengths only.
verifyPassword_LengthOnly(passphrase, salt, storedVerifier) ==
    Len(createVerifier(passphrase, salt)) = Len(storedVerifier)

\* verifyPassword: recompute, compare lengths, then OR-accumulate the XOR of
\* every byte; the result is 0 exactly when all bytes are equal.
verifyPassword(passphrase, salt, storedVerifier) ==
    LET computed == createVerifier(passphrase, salt)
    IN  /\ Len(computed) = Len(storedVerifier)
        /\ \A i \in 1..Len(computed) : computed[i] = storedVerifier[i]

\* Property order of an object literal as JSON.stringify walks it.
FieldOrder ==
    <<"_id", "type", "createdAt", "amount", "category", "description">>

\* JSON.stringify + TextEncoder.encode: the object's own properties, in order,
\* as a sequence of (name, value) pairs.
JSONStringify(data) ==
    LET keys == SelectSeq(FieldOrder, LAMBDA f : f \in DOMAIN data)
    IN  [i \in 1..Len(keys) |-> <<keys[i], data[keys[i]]>>]

\* A parse that stops after the first property.
JSONParse_FirstOnly(text) ==
    [f \in {text[1][1]} |-> text[1][2]]

\* TextDecoder.decode + JSON.parse: the object with the listed properties.
JSONParse(text) ==
    [f \in {text[i][1] : i \in DOMAIN text} |->
        text[CHOOSE i \in DOMAIN text : text[i][1] = f][2]]

\* AES-GCM as an ideal authenticated cipher.  The ciphertext of `bytes` under
\* (key, iv) is a term only that key and iv open; `flip` is the XOR mask laid
\* over the produced bytes (0 = as produced).
GcmCiphertext(key, iv, bytes) ==
    [k |-> key.material, iv |-> iv, pt |-> bytes, flip |-> 0]

\* The 128-bit tag authenticates (iv, ciphertext) under the key.
GcmTag(key, iv, ct) ==
    [k |-> key.material, iv |-> iv, ct |-> ct, flip |-> 0]

\* crypto.subtle.encrypt({name:'AES-GCM', iv}, key, encoded): ciphertext||tag.
SubtleEncrypt(key, iv, bytes) ==
    LET ct == GcmCiphertext(key, iv, bytes)
    IN  [ct |-> ct, tag |-> GcmTag(key, iv, ct)]

\* The rejection of a promise / a thrown Error as a value.
Failure(msg) ==
    [ok |-> FALSE, error |-> msg]

Success(v) ==
    [ok |-> TRUE, value |-> v]

\* A decryption that strips the key stream without comparing the tag.
SubtleDecrypt_NoTagCheck(key, iv, data) ==
    Success(data.ct.pt)

\* crypto.subtle.decrypt: recomputes the tag over (iv, ciphertext) and rejects
\* with OperationError unless it matches; then strips the key stream.
SubtleDecrypt(key, iv, data) ==
    IF data.tag # GcmTag(key, iv, data.ct)
    THEN Failure("OperationError")
    ELSE Success(data.ct.pt)

\* SecureCrypto.encrypt(data) with this.key = key and the drawn iv.
encrypt(key, iv, data) ==
    IF key = NullKey
    THEN Failure("No encryption key")
    ELSE Success([version |-> "1.0", algorithm |-> "AES-GCM", iv |-> iv,
                  data |-> SubtleEncrypt(key, iv, JSONStringify(data)),
                  timestamp |-> Timestamp])

\* SecureCrypto.decrypt(obj) with this.key = key.
decrypt(key, obj) ==
    IF key = NullKey
    THEN Failure("No encryption key")
    ELSE IF obj.version # "1.0" \/ obj.algorithm # "AES-GCM"
    THEN Failure("Unsupported format")
    ELSE LET opened == SubtleDecrypt(key, obj.iv, obj.data)
         IN  IF opened.ok THEN Success(JSONParse(opened.value)) ELSE opened

(* ------------------------------- state -------------------------------- *)

VARIABLES
    accountsDB,       \* PouchDB 'guardfin-accounts-v3': account id -> Account
    cryptoKey,        \* this.crypto.key
    cryptoAccountId,  \* this.crypto.accountId
    cryptoSalt,       \* this.crypto.salt
    userDB,           \* this.userDB: the account whose PouchDB is open, or NULL
    stores,           \* PouchDB 'guardfin-user-<id>': account id -> set of docs
    isSyncing,        \* this.isSyncing
    pendingSync,      \* this.pendingSync
    timers,           \* outstanding setTimeout callbacks: ticks left of each
    syncs,            \* syncToServer calls past their guard and not finished
    signIns,          \* signIn calls suspended at `await deriveKey`
    signInReturn,     \* the last signIn call that settled: its arguments and outcome
    muts,             \* save/update/delete calls suspended at an await
    mutReturn,        \* the last save/update/delete call that settled: its outcome
    ops,              \* mutations issued so far (also feeds generateUUID)
    syncStatus,       \* what App.updateSyncStatus last showed
    serverFiles,      \* server DB_DIR: path -> what the file holds
    serverReq,        \* the request the server is in the middle of handling
    serverReply,      \* the last answer the server gave
    hits,             \* the rate limiter's store: key -> requests in the window
    apiCall,          \* the last request to /api and how it was answered
    aiRequests,       \* POSTs to /api/agent/* awaiting their response
    sinceMut,         \* history: ticks since a mutation last called scheduleSync
    outlived,         \* history: the outstanding timer was armed before the last signOut
    clean,            \* history: one session, no signOut, no failed sync response so far
    mutsDone,         \* history, while clean: mutations that ran to their scheduleSync
    batches,          \* history, while clean: sync batches handed to fetch
    spaced,           \* history, while clean: every mutation was called and returned
                      \*   more than DebounceTicks after the one before returned
    oneWindow,        \* history, while clean: every mutation after the first was
                      \*   called and returned while the first one's timer was pending
    duringSync,       \* history, while clean: a mutation landed in a sync, no snapshot since
    sealed,           \* a direct encrypt call: its record, key and envelope
    envelope,         \* the envelope as it is when handed to decrypt
    result            \* the last direct decrypt call: its key, envelope and outcome

sessionVars ==
    <<cryptoKey, cryptoAccountId, cryptoSalt, userDB>>

\* The rate limiter and the record of the last request.
apiVars ==
    <<hits, apiCall>>

serverVars ==
    <<serverFiles, serverReq, serverReply, apiVars>>

\* The save/update/delete calls under way and the last one settled.
mutVars ==
    <<muts, mutReturn>>

\* The signIn calls under way and the last one settled.
signInVars ==
    <<signIns, signInReturn>>

syncVars ==
    <<isSyncing, pendingSync, timers, syncs, syncStatus>>

tallyVars ==
    <<clean, mutsDone, batches, spaced, oneWindow, duringSync>>

historyVars ==
    <<sinceMut, outlived, tallyVars>>

\* The run stops being clean: the tallies are dropped.
NoLongerClean ==
    /\ clean' = FALSE
    /\ mutsDone' = 0
    /\ batches' = 0
    /\ spaced' = FALSE
    /\ oneWindow' = FALSE
    /\ duringSync' = FALSE

directCallVars ==
    <<sealed, envelope, result>>

vars ==
    <<accountsDB, sessionVars, stores, syncVars, signInVars, mutVars, ops,
      serverVars, aiRequests, historyVars, directCallVars>>

\* generateUUID values are fresh; the n-th account created gets the n-th id.
AccountSeq ==
    <<"a1", "a2">>

\* `${type}_${uuid}`, kept as the pair (type, uuid).
DocId(type, uuid) ==
    <<type, uuid>>

\* String order of the type prefixes, as allDocs sorts its keys.
TypeRank ==
    [bill |-> 1, budget |-> 2, goal |-> 3, reminder |-> 4, transaction |-> 5]

IdLess(a, b) ==
    \/ TypeRank[a[1]] < TypeRank[b[1]]
    \/ a[1] = b[1] /\ a[2] < b[2]

\* allDocs({include_docs: true}).rows as docs: one row per _id, ordered by _id.
RECURSIVE AllDocs(_)
AllDocs(docs) ==
    IF docs = {} THEN <<>>
    ELSE LET first == CHOOSE d \in docs :
                        \A e \in docs \ {d} : IdLess(d._id, e._id)
         IN  <<first>> \o AllDocs(docs \ {first})

NoEnvelope ==
    [version |-> "none", algorithm |-> "none", iv |-> 0,
     data |-> [ct |-> [k |-> <<>>, iv |-> 0, pt |-> <<>>, flip |-> 0],
               tag |-> [k |-> <<>>, iv |-> 0,
                        ct |-> [k |-> <<>>, iv |-> 0, pt |-> <<>>, flip |-> 0],
                        flip |-> 0]],
     timestamp |-> Timestamp]

\* A stored doc; updatedAt is NULL until update sets it.
NoDoc ==
    [_id |-> <<"none", 0>>, _rev |-> 0, type |-> "none",
     encryptedData |-> NoEnvelope, createdAt |-> Timestamp, updatedAt |-> NULL]

\* No signIn call has settled yet.
NotSignedInYet ==
    [accountId |-> NULL, passphrase |-> NULL,
     returned |-> [ok |-> FALSE, error |-> "not called"]]

\* No save, update or delete call has settled yet.
NoMutationYet ==
    [op |-> "none", returned |-> [ok |-> FALSE, error |-> "not called"]]

\* No direct decrypt call has returned since the last direct encrypt call.
NotCalled ==
    [key |-> NullKey, envelope |-> NoEnvelope,
     returned |-> [ok |-> FALSE, error |-> "not called"]]

NoRecord ==
    [amount |-> 0]

NoBody ==
    [accountId |-> NULL, transactions |-> <<>>, recurring_bills |-> <<>>,
     goals |-> <<>>, budgets |-> <<>>, reminders |-> <<>>, settings |-> <<>>]

\* A JSON value as bodyParser.json hands it to a handler: its kind (what
\* typeof and Array.isArray tell apart, plus undefined for a property that
\* is not there), the text of a string, number or object and the items of
\* an array.
JUndefined ==
    [kind |-> "undefined", text |-> "", items |-> <<>>]

JNull ==
    [kind |-> "null", text |-> "null", items |-> <<>>]

JString(s) ==
    [kind |-> "string", text |-> s, items |-> <<>>]

JNumber(numeral) ==
    [kind |-> "number", text |-> numeral, items |-> <<>>]

JArray(items) ==
    [kind |-> "array", text |-> "", items |-> items]

JObject(text) ==
    [kind |-> "object", text |-> text, items |-> <<>>]

\* ToBoolean, as `!x` and `x || y` apply it.
Truthy(v) ==
    CASE v.kind \in {"undefined", "null"} -> FALSE
      [] v.kind = "string" -> v.text # ""
      [] v.kind = "number" -> v.text # "0"
      [] OTHER -> TRUE

\* x || y
OrElse(x, y) ==
    IF Truthy(x) THEN x ELSE y

\* JSON.stringify(data) in syncToServer and bodyParser.json on the server:
\* the batch as req.body.  A null accountId arrives as null; the groups are
\* arrays and settings is {}.
Wire(body) ==
    [accountId |-> IF body.accountId = NULL THEN JNull
                   ELSE JString(body.accountId),
     transactions |-> JArray(body.transactions),
     recurring_bills |-> JArray(body.recurring_bills),
     goals |-> JArray(body.goals),
     budgets |-> JArray(body.budgets),
     reminders |-> JArray(body.reminders),
     settings |-> JObject("{}")]

\* What the server answers: the route, the request body it answers to, the
\* HTTP status (0: no answer) and, for GET /api/data, the bundle returned.
NoBundle ==
    [transactions |-> <<>>, recurring_bills |-> <<>>, goals |-> <<>>,
     budgets |-> <<>>, reminders |-> <<>>, settings |-> JObject("{}"),
     lastSync |-> NULL]

Reply(route, request, status, data) ==
    [route |-> route, request |-> request, status |-> status, data |-> data]

NoReply ==
    Reply("none", Wire(NoBody), 0, NoBundle)

\* The addresses requests come from.
Ips ==
    {"ip1", "ip2"}

\* The accountIds sync bodies carry: two plain ids and one that reads as a
\* path out of the data directory.
ApiAccountIds ==
    {"a1", "a2", "../a1"}

\* The :accountId values of URLs, as Express decodes them: two plain ids and
\* one that reads as a path, sent as a2%2F..%2Fa1.
ApiParams ==
    {"a1", "a2", "a2/../a1"}

\* keyGenerator: `${accountId}_${req.ip}`, kept as the pair.
LimitKeys ==
    (ApiAccountIds \cup {"anonymous"}) \X Ips

\* A request to /api: the method and route, the :accountId of the URL
\* ("" on a route without one), req.body, req.body.confirmDelete and req.ip;
\* then the status answered and, for GET /api/data, the bundle.
ApiCall(route, param, body, confirmDelete, ip, status, data) ==
    [route |-> route, param |-> param, body |-> body,
     confirmDelete |-> confirmDelete, ip |-> ip, status |-> status,
     data |-> data]

NoApiCall ==
    ApiCall("none", "", Wire(NoBody), JUndefined, "ip1", 0, NoBundle)

Init ==
    /\ accountsDB = <<>>
    /\ cryptoKey = NullKey
    /\ cryptoAccountId = NULL
    /\ cryptoSalt = NULL
    /\ userDB = NULL
    /\ stores = [a \in Range(AccountSeq) |-> {}]
    /\ isSyncing = FALSE
    /\ pendingSync = FALSE
    /\ timers = <<>>
    /\ syncs = <<>>
    /\ signIns = <<>>
    /\ signInReturn = NotSignedInYet
    /\ muts = <<>>
    /\ mutReturn = NoMutationYet
    /\ hits = [k \in LimitKeys |-> 0]
    /\ apiCall = NoApiCall
    /\ ops = 0
    /\ syncStatus = "connected"
    /\ serverFiles = <<>>
    /\ serverReq = <<>>
    /\ serverReply = NoReply
    /\ aiRequests = <<>>
    /\ sinceMut = DebounceTicks + 1
    /\ outlived = FALSE
    /\ mutsDone = 0
    /\ batches = 0
    /\ spaced = TRUE
    /\ oneWindow = TRUE
    /\ clean = TRUE
    /\ duringSync = FALSE
    /\ sealed = [plain |-> NoRecord, key |-> NullKey, envelope |-> NoEnvelope]
    /\ envelope = NoEnvelope
    /\ result = NotCalled

(* ------------------------- accounts and session ----------------------- *)

SignedIn ==
    userDB # NULL

\* Database.createAccount(name, passphrase); generateSalt drew `salt`.
CreateAccount(name, passphrase, salt) ==
    /\ Len(accountsDB) < Len(AccountSeq)
    /\ LET id == AccountSeq[Len(accountsDB) + 1]
           verifier == createVerifier(passphrase, salt)
       IN  accountsDB' = Append(accountsDB,
               [_id |-> id, name |-> name, salt |-> salt,
                verifier |-> verifier, createdAt |-> Timestamp])
    /\ UNCHANGED <<sessionVars, stores, syncVars, signInVars, mutVars, ops,
                   serverVars, aiRequests, historyVars, directCallVars>>

\* accountsDB.get(accountId)
HasAccount(accountId) ==
    \E i \in DOMAIN accountsDB : accountsDB[i]._id = accountId

GetAccount(accountId) ==
    accountsDB[CHOOSE i \in DOMAIN accountsDB : accountsDB[i]._id = accountId]

\* Database.signIn up to `await this.crypto.deriveKey`: the account is loaded
\* and the passphrase verified (a miss or a mismatch throws and changes
\* nothing), then accountId and salt are set and the derivation starts.
SignInVerified(accountId, passphrase) ==
    /\ signIns = <<>>
    /\ HasAccount(accountId)
    /\ LET account == GetAccount(accountId)
       IN  /\ verifyPassword(passphrase, account.salt, account.verifier)
           /\ cryptoAccountId' = accountId
           /\ cryptoSalt' = account.salt
           /\ signIns' = Append(signIns,
                  [accountId |-> accountId, passphrase |-> passphrase,
                   account |-> account,
                   key |-> deriveKey(passphrase, account.salt)])
    /\ UNCHANGED <<accountsDB, cryptoKey, userDB, stores, syncVars, mutVars, ops,
                   signInReturn, serverVars, aiRequests, historyVars,
                   directCallVars>>

\* Database.signIn throwing: accountsDB.get rejects for an id the registry
\* does not hold (PouchDB's not_found error, passed on as it is), or
\* verifyPassword answers false and 'Invalid passphrase' is thrown.  Nothing
\* was assigned before either throw.
SignInThrows(accountId, passphrase) ==
    /\ signIns = <<>>
    /\ IF ~HasAccount(accountId)
       THEN signInReturn' = [accountId |-> accountId, passphrase |-> passphrase,
                             returned |-> Failure("missing")]
       ELSE /\ ~verifyPassword(passphrase, GetAccount(accountId).salt,
                               GetAccount(accountId).verifier)
            /\ signInReturn' = [accountId |-> accountId,
                                passphrase |-> passphrase,
                                returned |-> Failure("Invalid passphrase")]
    /\ UNCHANGED <<accountsDB, sessionVars, stores, syncVars, signIns, mutVars,
                   ops, serverVars, aiRequests, historyVars, directCallVars>>

\* Database.signIn after the derivation: key and store handle are set and
\* the account loaded at the start is returned.
SignInDone ==
    /\ signIns # <<>>
    /\ cryptoKey' = Head(signIns).key
    /\ userDB' = Head(signIns).accountId
    /\ signIns' = Tail(signIns)
    /\ signInReturn' = [accountId |-> Head(signIns).accountId,
                        passphrase |-> Head(signIns).passphrase,
                        returned |-> Success(Head(signIns).account)]
    /\ IF SignedIn THEN NoLongerClean ELSE UNCHANGED tallyVars
    /\ UNCHANGED <<accountsDB, cryptoAccountId, cryptoSalt, stores, syncVars,
                   mutVars, ops, serverVars, aiRequests, sinceMut, outlived,
                   directCallVars>>

\* A sign-out that also destroys the account's local store.
SignOut_DestroysStore ==
    /\ SignedIn
    /\ cryptoKey' = NullKey
    /\ cryptoAccountId' = NULL
    /\ cryptoSalt' = NULL
    /\ userDB' = NULL
    /\ stores' = [stores EXCEPT ![userDB] = {}]
    /\ outlived' = (timers # <<>>)
    /\ NoLongerClean
    /\ UNCHANGED <<accountsDB, syncVars, signInVars, mutVars, ops, serverVars,
                   aiRequests, sinceMut, directCallVars>>

\* Database.signOut: crypto.cleanup() and userDB = null.
SignOut ==
    /\ SignedIn
    /\ cryptoKey' = NullKey
    /\ cryptoAccountId' = NULL
    /\ cryptoSalt' = NULL
    /\ userDB' = NULL
    /\ outlived' = (timers # <<>>)
    /\ NoLongerClean
    /\ UNCHANGED <<accountsDB, stores, syncVars, signInVars, mutVars, ops,
                   serverVars, aiRequests, sinceMut, directCallVars>>

(* ----------------------------- sync engine ---------------------------- *)

\* A guard that forgets the in-flight flag.
SyncMayStart_IgnoresFlag ==
    userDB # NULL

\* The guard of syncToServer: `if (this.isSyncing || !this.userDB) return`.
SyncMayStart ==
    ~isSyncing /\ userDB # NULL

\* A guard that lets every mutation arm a timer of its own.
TimerAlreadyPending_Never ==
    FALSE

\* The guard of scheduleSync: `if (this.pendingSync) return`.
TimerAlreadyPending ==
    pendingSync

\* Database.scheduleSync, called at the end of a mutation.
ScheduleSync ==
    IF TimerAlreadyPending
    THEN UNCHANGED <<pendingSync, timers>>
    ELSE /\ pendingSync' = TRUE
         /\ timers' = Append(timers, DebounceTicks)

(* --------------------------- local mutations -------------------------- *)

\* A suspended save/update/delete call.  `db` is the PouchDB handle an issued
\* get/put/remove runs on, `doc` what get returned, `data` the record passed
\* in and `encrypted` its envelope.
\* A get that rejects a missing doc as it would a stale revision.
NotFound_Conflict ==
    "conflict"

\* The error userDB.get rejects with for a missing doc: status 404, name
\* 'not_found'.
NotFound ==
    "not_found"

\* How a save/update/delete call settled: save resolves to the new id,
\* update and delete to undefined; a rejection carries its error.
Resolved(op, value) ==
    [op |-> op, returned |-> Success(value)]

Rejected(op, error) ==
    [op |-> op, returned |-> Failure(error)]

MutProc(op, stage, id, type, db, doc, data, encrypted) ==
    [op |-> op, stage |-> stage, id |-> id, type |-> type, db |-> db,
     doc |-> doc, data |-> data, encrypted |-> encrypted]

HasDoc(docs, id) ==
    \E d \in docs : d._id = id

GetDoc(docs, id) ==
    CHOOSE d \in docs : d._id = id

\* What a mutation's call records for the history variables.
MutationCalled ==
    /\ UNCHANGED <<sinceMut, outlived, clean, mutsDone, batches, duringSync>>
    /\ spaced' = (spaced /\ (mutsDone = 0 \/ sinceMut > DebounceTicks))
    /\ oneWindow' = (oneWindow /\ (mutsDone = 0 \/ timers # <<>>))

\* What a mutation's return records for the history variables.
MutationReturns ==
    /\ sinceMut' = 0
    /\ UNCHANGED outlived
    /\ IF clean
       THEN /\ mutsDone' = mutsDone + 1
            /\ spaced' = (spaced /\ (mutsDone = 0 \/ sinceMut > DebounceTicks))
            /\ oneWindow' = (oneWindow /\ (mutsDone = 0 \/ timers # <<>>))
            /\ duringSync' = (duringSync \/ isSyncing)
            /\ UNCHANGED <<clean, batches>>
       ELSE UNCHANGED tallyVars

\* Database.save up to `await this.crypto.encrypt(data)`: the sign-in check,
\* the id, and encrypt's synchronous part, which reads this.key and draws iv.
SaveCallUpTo(calls, type, data, iv) ==
    /\ Len(muts) < calls
    /\ ops < MaxOps
    /\ SignedIn
    /\ LET encrypted == encrypt(cryptoKey, iv, data)
       IN  IF encrypted.ok
           THEN /\ muts' = Append(muts,
                              MutProc("save", "encrypt", DocId(type, ops + 1),
                                      type, NULL, NoDoc, data, encrypted.value))
                /\ UNCHANGED mutReturn
           ELSE /\ UNCHANGED muts
                /\ mutReturn' = Rejected("save", encrypted.error)
    /\ ops' = ops + 1
    /\ MutationCalled
    /\ UNCHANGED <<accountsDB, sessionVars, stores, syncVars, signInVars,
                   serverVars, aiRequests, directCallVars>>

\* Database.save called while no other save/update/delete call is under way.
SaveCall(type, data, iv) ==
    SaveCallUpTo(1, type, data, iv)

\* Database.update / Database.delete up to `await this.userDB.get(docId)`.
LoadCallUpTo(calls, op, docId) ==
    /\ Len(muts) < calls
    /\ ops < MaxOps
    /\ SignedIn
    /\ muts' = Append(muts, MutProc(op, "get", docId, docId[1], userDB, NoDoc,
                                    <<>>, NoEnvelope))
    /\ UNCHANGED mutReturn
    /\ ops' = ops + 1
    /\ MutationCalled
    /\ UNCHANGED <<accountsDB, sessionVars, stores, syncVars, signInVars,
                   serverVars, aiRequests, directCallVars>>

\* Database.update / Database.delete called while no other call is under way.
LoadCall(op, docId) ==
    LoadCallUpTo(1, op, docId)

\* update after get resolved: a missing doc rejects and ends the call; else
\* encrypt's synchronous part runs.
UpdateGotAt(i, data, iv) ==
    /\ i \in DOMAIN muts
    /\ muts[i].op = "update" /\ muts[i].stage = "get"
    /\ LET m == muts[i]
           encrypted == encrypt(cryptoKey, iv, data)
       IN  /\ muts' = IF HasDoc(stores[m.db], m.id) /\ encrypted.ok
                      THEN [muts EXCEPT ![i] =
                              [m EXCEPT !.stage = "encrypt",
                                        !.doc = GetDoc(stores[m.db], m.id),
                                        !.data = data,
                                        !.encrypted = encrypted.value]]
                      ELSE RemoveAt(muts, i)
           /\ mutReturn' =
                 IF ~HasDoc(stores[m.db], m.id) THEN Rejected(m.op, NotFound)
                 ELSE IF ~encrypted.ok THEN Rejected(m.op, encrypted.error)
                 ELSE mutReturn
    /\ UNCHANGED <<accountsDB, sessionVars, stores, syncVars, signInVars, ops,
                   serverVars, aiRequests, historyVars, directCallVars>>

UpdateGot(data, iv) ==
    UpdateGotAt(1, data, iv)

\* save / update after encrypt resolved: `this.userDB.put(...)` is issued on
\* the handle this.userDB holds now; a null handle throws a TypeError.
PutIssuedAt(i) ==
    /\ i \in DOMAIN muts
    /\ muts[i].stage = "encrypt"
    /\ muts' = IF SignedIn
               THEN [muts EXCEPT ![i] = [@ EXCEPT !.stage = "put",
                                                  !.db = userDB]]
               ELSE RemoveAt(muts, i)
    /\ mutReturn' = IF SignedIn THEN mutReturn
                    ELSE Rejected(muts[i].op, "TypeError")
    /\ UNCHANGED <<accountsDB, sessionVars, stores, syncVars, signInVars, ops,
                   serverVars, aiRequests, historyVars, directCallVars>>

PutIssued ==
    PutIssuedAt(1)

\* delete after get resolved: a missing doc rejects; else
\* `this.userDB.remove(doc)` is issued on the handle this.userDB holds now.
DeleteGotAt(i) ==
    /\ i \in DOMAIN muts
    /\ muts[i].op = "delete" /\ muts[i].stage = "get"
    /\ LET m == muts[i]
       IN  /\ muts' = IF HasDoc(stores[m.db], m.id) /\ SignedIn
                      THEN [muts EXCEPT ![i] =
                              [m EXCEPT !.stage = "put", !.db = userDB,
                                        !.doc = GetDoc(stores[m.db], m.id)]]
                      ELSE RemoveAt(muts, i)
           /\ mutReturn' =
                 IF ~HasDoc(stores[m.db], m.id) THEN Rejected(m.op, NotFound)
                 ELSE IF ~SignedIn THEN Rejected(m.op, "TypeError")
                 ELSE mutReturn
    /\ UNCHANGED <<accountsDB, sessionVars, stores, syncVars, signInVars, ops,
                   serverVars, aiRequests, historyVars, directCallVars>>

DeleteGot ==
    DeleteGotAt(1)

\* PouchDB put/remove: a new doc gets revision 1; a doc carrying _rev replaces
\* the stored one only when that is the stored revision, else 409 conflict.
PutAccepted(docs, m) ==
    IF m.op = "save"
    THEN ~HasDoc(docs, m.id)
    ELSE HasDoc(docs, m.id) /\ GetDoc(docs, m.id)._rev = m.doc._rev

PutApplied(docs, m) ==
    CASE m.op = "save" ->
           docs \cup {[_id |-> m.id, _rev |-> 1, type |-> m.type,
                       encryptedData |-> m.encrypted,
                       createdAt |-> Timestamp, updatedAt |-> NULL]}
      [] m.op = "update" ->
           (docs \ {GetDoc(docs, m.id)})
               \cup {[m.doc EXCEPT !._rev = m.doc._rev + 1,
                                   !.encryptedData = m.encrypted,
                                   !.updatedAt = Timestamp]}
      [] m.op = "delete" ->
           docs \ {GetDoc(docs, m.id)}

\* The put/remove resolves: the store changes and the call goes on to
\* scheduleSync() and returns; a conflict rejects and ends the call.
PutDoneAt(i) ==
    /\ i \in DOMAIN muts
    /\ muts[i].stage = "put"
    /\ muts' = RemoveAt(muts, i)
    /\ LET m == muts[i]
       IN  IF PutAccepted(stores[m.db], m)
           THEN /\ stores' = [stores EXCEPT ![m.db] = PutApplied(@, m)]
                /\ ScheduleSync
                /\ MutationReturns
                /\ mutReturn' = Resolved(m.op, IF m.op = "save" THEN m.id
                                               ELSE <<>>)
           ELSE /\ UNCHANGED <<stores, pendingSync, timers, historyVars>>
                /\ mutReturn' = Rejected(m.op, "conflict")
    /\ UNCHANGED <<accountsDB, sessionVars, isSyncing, syncs, syncStatus,
                   signInVars, ops, serverVars, aiRequests, directCallVars>>

PutDone ==
    PutDoneAt(1)

(* ------------------------ timers and syncToServer ---------------------- *)

\* One second passes.  A timer that is due fires before time moves on.
Tick ==
    /\ \A i \in DOMAIN timers : timers[i] > 0
    /\ timers' = [i \in DOMAIN timers |-> timers[i] - 1]
    /\ sinceMut' = Min(sinceMut + 1, DebounceTicks + 1)
    /\ UNCHANGED <<accountsDB, sessionVars, stores, isSyncing, pendingSync,
                   syncs, syncStatus, signInVars, mutVars, ops, serverVars,
                   aiRequests, outlived, tallyVars, directCallVars>>

\* A suspended syncToServer call: the handle allDocs was issued on, the body
\* handed to fetch, and whether the response (once there) is 2xx.
SyncProc(stage, db, body, ok) ==
    [stage |-> stage, db |-> db, body |-> body, ok |-> ok]

\* The setTimeout callback: syncToServer from its guard to `await allDocs`.
TimerFires(i) ==
    /\ i \in DOMAIN timers
    /\ timers[i] = 0
    /\ timers' = RemoveAt(timers, i)
    /\ IF SyncMayStart
       THEN /\ isSyncing' = TRUE
            /\ pendingSync' = FALSE
            /\ syncStatus' = "syncing"
            /\ syncs' = Append(syncs, SyncProc("allDocs", userDB, NoBody, FALSE))
       ELSE UNCHANGED <<isSyncing, pendingSync, syncStatus, syncs>>
    /\ outlived' = FALSE
    /\ UNCHANGED <<accountsDB, sessionVars, stores, signInVars, mutVars, ops,
                   serverVars, aiRequests, sinceMut, tallyVars, directCallVars>>

\* A filter that keeps the first row of the type only.
RowsOfType_FirstOnly(rows, type) ==
    LET found == SelectSeq(rows, LAMBDA d : d.type = type)
    IN  IF found = <<>> THEN <<>> ELSE <<Head(found)>>

\* result.rows.filter(r => r.doc.type === type).map(r => r.doc)
RowsOfType(rows, type) ==
    SelectSeq(rows, LAMBDA d : d.type = type)

\* The batch syncToServer builds from allDocs' rows and this.crypto.accountId.
SyncBody(accountId, rows) ==
    [accountId |-> accountId,
     transactions |-> RowsOfType(rows, "transaction"),
     recurring_bills |-> RowsOfType(rows, "bill"),
     goals |-> RowsOfType(rows, "goal"),
     budgets |-> RowsOfType(rows, "budget"),
     reminders |-> RowsOfType(rows, "reminder"),
     settings |-> <<>>]

\* syncToServer after allDocs resolved: the batch is built and fetch is called.
AllDocsResolved(i) ==
    /\ i \in DOMAIN syncs
    /\ syncs[i].stage = "allDocs"
    /\ syncs' = [syncs EXCEPT ![i] =
                   SyncProc("sent", @.db,
                            SyncBody(cryptoAccountId, AllDocs(stores[@.db])),
                            FALSE)]
    /\ IF clean
       THEN /\ batches' = batches + 1
            /\ duringSync' = FALSE
            /\ UNCHANGED <<clean, mutsDone, spaced, oneWindow>>
       ELSE UNCHANGED tallyVars
    /\ UNCHANGED <<accountsDB, sessionVars, stores, isSyncing, pendingSync,
                   timers, syncStatus, signInVars, mutVars, ops, serverVars,
                   aiRequests, sinceMut, outlived,
                   directCallVars>>

(* ------------------------------- server ------------------------------- *)

GroupNames ==
    {"transactions", "recurring_bills", "goals", "budgets", "reminders"}

IsArray(v) ==
    v.kind = "array"

validateSyncData_AccountOnly(body) ==
    /\ Truthy(body.accountId)
    /\ body.accountId.kind = "string"

\* validateSyncData: accountId must be a non-empty string and every group
\* that is present must be an array.
validateSyncData(body) ==
    /\ ~(~Truthy(body.accountId) \/ body.accountId.kind # "string")
    /\ \A g \in GroupNames :
          ~(body[g].kind # "undefined" /\ ~IsArray(body[g]))

\* DB_DIR, as the path from the server's own directory.
DbDir ==
    <<"secure-data">>

\* The segments of an accountId read as a path: '/' separates them.
Segments(accountId) ==
    CASE accountId = "../a1" -> <<"..", "a1">>
      [] accountId = "a2/../a1" -> <<"a2", "..", "a1">>
      [] OTHER -> <<accountId>>

\* path.normalize, as path.join applies it: a '..' segment removes the
\* segment before it.
RECURSIVE Normalize(_, _)
Normalize(done, rest) ==
    IF rest = <<>> THEN done
    ELSE IF Head(rest) = ".." /\ done # <<>>
         THEN Normalize(SubSeq(done, 1, Len(done) - 1), Tail(rest))
         ELSE Normalize(Append(done, Head(rest)), Tail(rest))

\* path.join(DB_DIR, `${accountId}.json`): the segments of the path, then
\* the extension.
DataFile(accountId) ==
    Normalize(<<>>, DbDir \o Segments(accountId)) \o <<".json">>

TempFile_InPlace(dataFile) ==
    dataFile

\* dataFile + '.tmp'
TempFile(dataFile) ==
    dataFile \o <<".tmp">>

\* What a file holds: the JSON text of a bundle, all of it or, when the
\* writing was cut short, only a part.
Whole(bundle) ==
    [written |-> "all", bundle |-> bundle]

Part(bundle) ==
    [written |-> "part", bundle |-> bundle]

\* fs.existsSync(dataFile)
HasFile(files, accountId) ==
    DataFile(accountId) \in DOMAIN files

\* JSON.parse(fs.readFileSync(file, 'utf8')): throws on a text cut short.
ReadJson(file) ==
    IF file.written = "all" THEN Success(file.bundle)
    ELSE Failure("SyntaxError")

\* fs.writeFileSync(path, text), as far as it got.
WriteFile(files, path, file) ==
    [p \in DOMAIN files \cup {path} |-> IF p = path THEN file ELSE files[p]]

\* fs.renameSync(from, to): `to` is replaced in one step, `from` is gone.
RenameFile(files, from, to) ==
    [p \in (DOMAIN files \ {from}) \cup {to} |->
        IF p = to THEN files[from] ELSE files[p]]

\* A bundle that keeps the stored budgets when the request brings none.
SyncBundle_KeepsBudgets(files, body) ==
    LET id == body.accountId.text
        existing == IF HasFile(files, id) THEN ReadJson(files[DataFile(id)])
                    ELSE Failure("ENOENT")
        budgets == OrElse(body.budgets, JArray(<<>>)).items
    IN  [transactions |-> OrElse(body.transactions, JArray(<<>>)).items,
         recurring_bills |-> OrElse(body.recurring_bills, JArray(<<>>)).items,
         goals |-> OrElse(body.goals, JArray(<<>>)).items,
         budgets |-> IF budgets = <<>> /\ existing.ok
                     THEN existing.value.budgets ELSE budgets,
         reminders |-> OrElse(body.reminders, JArray(<<>>)).items,
         settings |-> OrElse(body.settings, JObject("{}")),
         lastSync |-> Timestamp,
         syncCount |-> IF existing.ok THEN existing.value.syncCount + 1 ELSE 0]

SyncBundle_Appends(files, body) ==
    LET id == body.accountId.text
        kept(g) == IF HasFile(files, id) THEN files[DataFile(id)].bundle[g]
                   ELSE <<>>
    IN  [transactions |-> kept("transactions")
                            \o OrElse(body.transactions, JArray(<<>>)).items,
         recurring_bills |-> kept("recurring_bills")
                            \o OrElse(body.recurring_bills, JArray(<<>>)).items,
         goals |-> kept("goals") \o OrElse(body.goals, JArray(<<>>)).items,
         budgets |-> kept("budgets") \o OrElse(body.budgets, JArray(<<>>)).items,
         reminders |-> kept("reminders")
                            \o OrElse(body.reminders, JArray(<<>>)).items,
         settings |-> OrElse(body.settings, JObject("{}")),
         lastSync |-> Timestamp,
         syncCount |-> 0]

\* POST /api/sync past validation: the encryptedData object.  syncCount
\* continues the stored one when the stored file can be read.
SyncBundle(files, body) ==
    LET id == body.accountId.text
        existing == IF HasFile(files, id) THEN ReadJson(files[DataFile(id)])
                    ELSE Failure("ENOENT")
    IN  [transactions |-> OrElse(body.transactions, JArray(<<>>)).items,
         recurring_bills |-> OrElse(body.recurring_bills, JArray(<<>>)).items,
         goals |-> OrElse(body.goals, JArray(<<>>)).items,
         budgets |-> OrElse(body.budgets, JArray(<<>>)).items,
         reminders |-> OrElse(body.reminders, JArray(<<>>)).items,
         settings |-> OrElse(body.settings, JObject("{}")),
         lastSync |-> Timestamp,
         syncCount |-> IF existing.ok THEN existing.value.syncCount + 1 ELSE 0]

\* POST /api/sync past validation, start to end: the bundle is written to
\* the temporary file, which is then renamed onto <accountId>.json.
SyncRoute(files, body) ==
    LET dataFile == DataFile(body.accountId.text)
        tempFile == TempFile(dataFile)
    IN  RenameFile(WriteFile(files, tempFile, Whole(SyncBundle(files, body))),
                   tempFile, dataFile)

\* The server handles a sync request of the client: 400 from validation,
\* else 200.  The handler runs from start to end without interruption.
ServerSync(i) ==
    /\ i \in DOMAIN syncs
    /\ syncs[i].stage = "sent"
    /\ serverReq = <<>>
    /\ LET body == Wire(syncs[i].body)
       IN  IF validateSyncData(body)
           THEN /\ serverFiles' = SyncRoute(serverFiles, body)
                /\ serverReply' = Reply("sync", body, 200, NoBundle)
                /\ syncs' = [syncs EXCEPT ![i].stage = "replied", ![i].ok = TRUE]
           ELSE /\ UNCHANGED serverFiles
                /\ serverReply' = Reply("sync", body, 400, NoBundle)
                /\ syncs' = [syncs EXCEPT ![i].stage = "replied"]
    /\ UNCHANGED <<accountsDB, sessionVars, stores, isSyncing, pendingSync,
                   timers, syncStatus, signInVars, mutVars, ops, serverReq,
                   apiVars, aiRequests, historyVars, directCallVars>>

\* The server answers non-2xx without touching the store (rate limit 429,
\* payload 413, handler error 500).
ServerRejects(i) ==
    /\ i \in DOMAIN syncs
    /\ syncs[i].stage = "sent"
    /\ syncs' = [syncs EXCEPT ![i].stage = "replied"]
    /\ UNCHANGED <<accountsDB, sessionVars, stores, isSyncing, pendingSync,
                   timers, syncStatus, signInVars, mutVars, ops, serverVars,
                   aiRequests, historyVars, directCallVars>>

ResponseStatus_AlwaysSynced(ok) ==
    "synced"

\* response.ok ? 'synced' : 'error'
ResponseStatus(ok) ==
    IF ok THEN "synced" ELSE "error"

\* syncToServer after fetch resolved: the status is shown, `finally` clears
\* isSyncing.
SyncResponse(i) ==
    /\ i \in DOMAIN syncs
    /\ syncs[i].stage = "replied"
    /\ syncStatus' = ResponseStatus(syncs[i].ok)
    /\ isSyncing' = FALSE
    /\ syncs' = RemoveAt(syncs, i)
    /\ IF syncs[i].ok THEN UNCHANGED tallyVars ELSE NoLongerClean
    /\ UNCHANGED <<accountsDB, sessionVars, stores, pendingSync, timers,
                   signInVars, mutVars, ops, serverVars, aiRequests, sinceMut, outlived,
                   directCallVars>>

\* fetch rejects (network unreachable, request or response lost): the catch
\* block shows 'offline', `finally` clears isSyncing.
\* A fetch whose rejection is handed to the call that last changed the store.
TransportFails_RaisedToCaller(i) ==
    /\ i \in DOMAIN syncs
    /\ syncs[i].stage \in {"sent", "replied"}
    /\ syncStatus' = "offline"
    /\ isSyncing' = FALSE
    /\ syncs' = RemoveAt(syncs, i)
    /\ NoLongerClean
    /\ mutReturn' = Rejected(mutReturn.op, "Failed to fetch")
    /\ UNCHANGED <<accountsDB, sessionVars, stores, pendingSync, timers,
                   signInVars, muts, ops, serverVars, aiRequests, sinceMut,
                   outlived, directCallVars>>

TransportFails(i) ==
    /\ i \in DOMAIN syncs
    /\ syncs[i].stage \in {"sent", "replied"}
    /\ syncStatus' = "offline"
    /\ isSyncing' = FALSE
    /\ syncs' = RemoveAt(syncs, i)
    /\ NoLongerClean
    /\ UNCHANGED <<accountsDB, sessionVars, stores, pendingSync, timers,
                   signInVars, mutVars, ops, serverVars, aiRequests, sinceMut, outlived,
                   directCallVars>>

(* --------------------------- specification ---------------------------- *)

\* The inputs the sync engine is exercised with.
SyncTypes ==
    {"transaction"}

SyncRecords ==
    {[amount |-> 1]}

SyncAccounts ==
    {"a1"}

\* The account id createAccount will generate next.
NextAccountId ==
    AccountSeq[Min(Len(accountsDB) + 1, Len(AccountSeq))]

StoredIds ==
    IF SignedIn THEN {d._id : d \in stores[userDB]} ELSE {}

Next ==
    \/ \E n \in Names : NextAccountId \in SyncAccounts /\ CreateAccount(n, "p1", "s1")
    \/ \E a \in SyncAccounts : SignInVerified(a, "p1")
    \/ SignInDone
    \/ SignOut
    \/ \E t \in SyncTypes, d \in SyncRecords : SaveCall(t, d, 0)
    \/ \E id \in StoredIds : LoadCall("update", id)
    \/ \E id \in StoredIds : LoadCall("delete", id)
    \/ \E d \in SyncRecords : UpdateGot(d, 0)
    \/ DeleteGot
    \/ PutIssued
    \/ PutDone
    \/ Tick
    \/ \E i \in DOMAIN timers : TimerFires(i)
    \/ \E i \in DOMAIN syncs : AllDocsResolved(i)
    \/ \E i \in DOMAIN syncs : ServerSync(i)
    \/ \E i \in DOMAIN syncs : ServerRejects(i)
    \/ \E i \in DOMAIN syncs : SyncResponse(i)
    \/ \E i \in DOMAIN syncs : TransportFails(i)

Spec ==
    Init /\ [][Next]_vars

(* ------------------------ reads and the AI agent ---------------------- *)

\* An entry in which the doc's properties replace those of the record.
Entry_DocWins(doc, data) ==
    [f \in {"_id", "type", "createdAt"} \cup DOMAIN data |->
        IF f \in {"_id", "type", "createdAt"} THEN doc[f] ELSE data[f]]

\* { _id: doc._id, type: doc.type, createdAt: doc.createdAt, ...data }: a
\* property of data replaces the doc's property of the same name.
Entry(doc, data) ==
    [f \in {"_id", "type", "createdAt"} \cup DOMAIN data |->
        IF f \in DOMAIN data THEN data[f] ELSE doc[f]]

\* A loop without the try/catch: the first decrypt that throws ends it.
RECURSIVE DecryptRows_Aborts(_, _)
DecryptRows_Aborts(rows, key) ==
    IF rows = <<>> THEN <<>>
    ELSE LET opened == decrypt(key, Head(rows).encryptedData)
         IN  IF opened.ok
             THEN <<Entry(Head(rows), opened.value)>>
                      \o DecryptRows_Aborts(Tail(rows), key)
             ELSE <<>>

\* The loop of getAll: a row whose decrypt throws is logged and skipped.
RECURSIVE DecryptRows(_, _)
DecryptRows(rows, key) ==
    IF rows = <<>> THEN <<>>
    ELSE LET opened == decrypt(key, Head(rows).encryptedData)
         IN  (IF opened.ok THEN <<Entry(Head(rows), opened.value)>> ELSE <<>>)
                 \o DecryptRows(Tail(rows), key)

\* Database.getAll over the docs of the open store, run without interruption.
GetAllOf(docs, key) ==
    DecryptRows(AllDocs(docs), key)

GetByTypeOf(docs, key, type) ==
    SelectSeq(GetAllOf(docs, key), LAMBDA d : d.type = type)

getAll ==
    IF userDB = NULL THEN <<>> ELSE GetAllOf(stores[userDB], cryptoKey)

getByType(type) ==
    SelectSeq(getAll, LAMBDA d : d.type = type)

\* list.reduce((s, t) => s + t.amount, 0)
RECURSIVE SumAmounts(_)
SumAmounts(list) ==
    IF list = <<>> THEN 0 ELSE Head(list).amount + SumAmounts(Tail(list))

\* AIAgent.getContext over entries already read.  Every record counts as of
\* this month; topCategories (a sorted copy of categoryTotals) and goals
\* (name and progress of each goal) are left out.
ContextOf(transactions, budgets, goals) ==
    LET expenses == SelectSeq(transactions, LAMBDA t : t.type = "expense")
        income == SelectSeq(transactions, LAMBDA t : t.type = "income")
        spent(c) == SumAmounts(SelectSeq(expenses, LAMBDA t : t.category = c))
        categoryTotals == [c \in {t.category : t \in Range(expenses)} |-> spent(c)]
    IN  [monthlyExpenses |-> SumAmounts(expenses),
         monthlyIncome |-> SumAmounts(income),
         budgetCount |-> Len(budgets),
         goalCount |-> Len(goals),
         transactionCount |-> Len(transactions),
         categoryTotals |-> categoryTotals,
         budgets |-> [i \in 1..Len(budgets) |->
                        [category |-> budgets[i].category,
                         limit |-> budgets[i].amount,
                         spent |-> spent(budgets[i].category)]]]

\* AIAgent.getContext as it reads a store with a key.
GetContextOf(docs, key) ==
    ContextOf(GetByTypeOf(docs, key, "transaction"),
              GetByTypeOf(docs, key, "budget"),
              GetByTypeOf(docs, key, "goal"))

getContext ==
    IF userDB = NULL THEN ContextOf(<<>>, <<>>, <<>>)
    ELSE GetContextOf(stores[userDB], cryptoKey)

AgentUrls ==
    {"/api/agent/chat", "/api/agent/insights", "/api/agent/predict"}

\* AIAgent.chat / getInsights / getPredictions up to `await fetch`: the body
\* carries the context as financialContext (chat) or financialData.
AgentRequest(url) ==
    /\ aiRequests = <<>>
    /\ aiRequests' = <<[url |-> url, context |-> getContext]>>
    /\ UNCHANGED <<accountsDB, sessionVars, stores, syncVars, signInVars, mutVars,
                   ops, serverVars, historyVars, directCallVars>>

\* The fetch settles; the agent's answer changes nothing in the Database.
AgentResponds ==
    /\ aiRequests # <<>>
    /\ aiRequests' = <<>>
    /\ UNCHANGED <<accountsDB, sessionVars, stores, syncVars, signInVars, mutVars,
                   ops, serverVars, historyVars, directCallVars>>

\* The inputs the store and the agent are exercised with.
StoreTypes ==
    {"transaction", "budget"}

StoreRecords ==
    {[amount |-> 1, category |-> "Food"],
     [amount |-> 2, category |-> "Food", type |-> "expense"]}

StoreNext ==
    \/ \E n \in Names : NextAccountId \in SyncAccounts /\ CreateAccount(n, "p1", "s1")
    \/ \E a \in SyncAccounts : SignInVerified(a, "p1")
    \/ SignInDone
    \/ SignOut
    \/ \E t \in StoreTypes, d \in StoreRecords, iv \in IVs : SaveCall(t, d, iv)
    \/ \E id \in StoredIds : LoadCall("update", id)
    \/ \E id \in StoredIds : LoadCall("delete", id)
    \/ \E d \in StoreRecords, iv \in IVs : UpdateGot(d, iv)
    \/ DeleteGot
    \/ PutIssued
    \/ PutDone
    \/ \E url \in AgentUrls : AgentRequest(url)
    \/ AgentResponds

\* The local store and the AI agent, without the passage of time.
StoreSpec ==
    Init /\ [][StoreNext]_vars

(* ------------------------ store and agent claims ---------------------- *)

\* A record with no contents, and a doc resealed to hold it: same id, type,
\* revision, key and iv, different plaintext.
BlankRecord ==
    [amount |-> 0, category |-> "blank"]

Blinded(doc) ==
    LET key == [algorithm |-> "AES-GCM", length |-> KeyBits,
                material |-> doc.encryptedData.data.ct.k]
    IN  [doc EXCEPT !.encryptedData.data =
            SubtleEncrypt(key, doc.encryptedData.iv, JSONStringify(BlankRecord))]

\* What the server can read of a doc: everything but what the envelope seals.
Opaque(doc) ==
    [doc EXCEPT !.encryptedData.data = "sealed"]

ServerView(body) ==
    [g \in GroupNames |->
        [i \in 1..Len(body[g]) |-> Opaque(body[g][i])]]

\* C3: no request body depends on what the records contain: every body sent
\* is the one the same store would give with all record contents blanked
\* (sync batches compared as the server can read them).
C3_OnlyCiphertextLeaves ==
    [][/\ \A i \in DOMAIN aiRequests' :
            aiRequests = <<>> =>
                aiRequests'[i].context =
                    IF userDB = NULL THEN ContextOf(<<>>, <<>>, <<>>)
                    ELSE GetContextOf({Blinded(d) : d \in stores[userDB]},
                                      cryptoKey)
       /\ \A i \in DOMAIN syncs \cap DOMAIN syncs' :
            (syncs[i].stage = "allDocs" /\ syncs'[i].stage = "sent") =>
                ServerView(syncs'[i].body) =
                    ServerView(SyncBody(cryptoAccountId,
                        AllDocs({Blinded(d) : d \in stores[syncs[i].db]})))]_vars

\* C8: when a save's put lands in the session it was called in, getByType of
\* its type has exactly one entry more than before, and that entry has the
\* id save returns and every field of the record with the record's value.
C8_SaveThenGetByType ==
    [][(/\ muts # <<>>
        /\ Head(muts).op = "save"
        /\ Head(muts).stage = "put"
        /\ muts' = <<>>
        /\ userDB = Head(muts).db
        /\ cryptoKey.material = Head(muts).encrypted.data.ct.k)
       => LET m == Head(muts)
              before == getByType(m.type)
              after == GetByTypeOf(stores'[m.db], cryptoKey', m.type)
          IN  /\ Len(after) = Len(before) + 1
              /\ \E i \in DOMAIN after :
                    /\ after[i]._id = m.id
                    /\ \A f \in DOMAIN m.data : after[i][f] = m.data[f]]_vars

(* ------------------------- sync engine claims ------------------------- *)

\* Nothing is suspended and no timer is outstanding: without a further call
\* from outside, nothing more will happen.
Quiescent ==
    timers = <<>> /\ syncs = <<>> /\ muts = <<>> /\ signIns = <<>>

\* GET /api/data/:accountId: the stored groups, or the empty defaults.
ServerGroups(accountId) ==
    IF HasFile(serverFiles, accountId)
    THEN [g \in GroupNames |-> serverFiles[DataFile(accountId)].bundle[g]]
    ELSE [g \in GroupNames |-> <<>>]

LocalGroups(accountId) ==
    [g \in GroupNames |-> SyncBody(accountId, AllDocs(stores[accountId]))[g]]

\* A save/update/delete call reaches its scheduleSync() in this step.
MutationReturns_Step ==
    /\ muts # <<>>
    /\ Head(muts).stage = "put"
    /\ PutAccepted(stores[Head(muts).db], Head(muts))
    /\ muts' = <<>>

\* A syncToServer call passes its guard in this step.
SyncStarts_Step ==
    Len(syncs') > Len(syncs)

\* C1: at most one syncToServer call is between its guard and its `finally`
\* at any time, whatever the order of mutations, timer expiries and responses.
C1_AtMostOneSyncInFlight ==
    /\ Len(syncs) <= 1
    /\ isSyncing <=> (Len(syncs) = 1)

\* C1 witness: a timer expired while a sync was in flight and its call was
\* dropped, leaving the one sync running.
C1_TimerExpiredDuringSync ==
    /\ Len(syncs) = 1
    /\ pendingSync
    /\ timers = <<>>
    /\ SignedIn

\* C2: the verifier persisted for an account never equals the key material
\* deriveKey derives from the same passphrase and salt.
C2_VerifierIsNotTheKey ==
    \A i \in DOMAIN accountsDB : \A p \in Passphrases :
        accountsDB[i].verifier = createVerifier(p, accountsDB[i].salt)
            => accountsDB[i].verifier # deriveKey(p, accountsDB[i].salt).material

\* C4: in a session without sign-out or failed response, once everything has
\* settled, mutations that all fell into one debounce window have caused
\* exactly one batch, and mutations each more than 2 s after the previous one
\* have caused one batch each.
C4_DebounceCoalescing ==
    (clean /\ Quiescent /\ mutsDone >= 1)
        => /\ oneWindow => batches = 1
           /\ spaced => batches = mutsDone

\* C5: in a session that stays signed in and whose sync requests all succeed,
\* once mutations have stopped and everything has settled, the server's record
\* groups equal the local store's.
C5_SettledMeansConverged ==
    (clean /\ Quiescent /\ SignedIn)
        => ServerGroups(userDB) = LocalGroups(userDB)

\* C6: a mutation that completed while a sync was in flight is picked up by a
\* snapshot taken afterwards, with no later mutation needed: once everything
\* has settled no such mutation is left out.
C6_MutationDuringSyncIsSynced ==
    (clean /\ Quiescent) => ~duringSync

SyncEnds_Step ==
    Len(syncs') < Len(syncs)

\* C16: a sync that starts shows 'syncing'; nothing else changes the status
\* until the step that ends the sync, which shows 'synced' after a 2xx
\* response, 'error' after a non-2xx response and 'offline' when fetch
\* rejected, and clears isSyncing in the same step.
C16_StatusFollowsOutcome ==
    [][/\ SyncStarts_Step => (syncStatus' = "syncing" /\ isSyncing')
       /\ syncStatus' # syncStatus => (SyncStarts_Step \/ SyncEnds_Step)
       /\ SyncEnds_Step
          => /\ syncStatus = "syncing"
             /\ ~isSyncing'
             /\ syncStatus' \in {"synced", "error", "offline"}
             /\ syncStatus' = "synced"
                  => (Head(syncs).stage = "replied" /\ Head(syncs).ok)
             /\ syncStatus' = "error"
                  => (Head(syncs).stage = "replied" /\ ~Head(syncs).ok)
             /\ Head(syncs).stage # "replied" => syncStatus' = "offline"]_vars

C16_ErrorShownThenFree ==
    /\ syncStatus = "error"
    /\ ~isSyncing
    /\ syncs = <<>>
    /\ serverReply.status = 400

\* Database.signOut runs in this step.
SignOut_Step ==
    userDB # NULL /\ userDB' = NULL

\* C17: no sync is started by a timer that was armed before the last
\* signOut, and signOut leaves the syncs under way as they are.
C17_SignOutCancelsTimer ==
    [][/\ ~(outlived /\ SyncStarts_Step)
       /\ SignOut_Step => syncs' = syncs]_vars

\* C18: signOut leaves key, accountId, salt and store handle null and
\* changes neither a local store nor the account registry.
C18_SignOutKeepsData ==
    [][SignOut_Step
       => /\ cryptoKey' = NullKey
          /\ cryptoAccountId' = NULL
          /\ cryptoSalt' = NULL
          /\ userDB' = NULL
          /\ stores' = stores
          /\ accountsDB' = accountsDB]_vars

C18_SignedOutWithRecords ==
    /\ userDB = NULL
    /\ cryptoKey = NullKey
    /\ signInReturn.returned.ok
    /\ stores[signInReturn.accountId] # {}
    /\ signIns = <<>>

(* ----------------------- encrypt / decrypt directly ------------------- *)

\* this.crypto.encrypt(data) in the session as it is; a call without a key
\* throws and leaves nothing behind.
CallEncrypt(data, iv) ==
    /\ cryptoKey # NullKey
    /\ LET sealedNow == encrypt(cryptoKey, iv, data).value
       IN  /\ sealed' = [plain |-> data, key |-> cryptoKey, envelope |-> sealedNow]
           /\ envelope' = sealedNow
    /\ result' = NotCalled
    /\ UNCHANGED <<accountsDB, sessionVars, stores, syncVars, signInVars, mutVars,
                   ops, serverVars, aiRequests, historyVars>>

\* The envelope sits in storage, where its properties can be rewritten
\* before decrypt reads them (each direct encrypt call is followed by any
\* number of rewrites and then decrypt calls): bits of the ciphertext bytes
\* are flipped ...
TamperCiphertext ==
    /\ envelope # NoEnvelope
    /\ result = NotCalled
    /\ envelope' = [envelope EXCEPT !.data.ct.flip = 1 - @]
    /\ UNCHANGED <<accountsDB, sessionVars, stores, syncVars, signInVars, mutVars,
                   ops, serverVars, aiRequests, historyVars, sealed, result>>

\* ... or of the tag bytes that end encryptedObj.data ...
TamperTag ==
    /\ envelope # NoEnvelope
    /\ result = NotCalled
    /\ envelope' = [envelope EXCEPT !.data.tag.flip = 1 - @]
    /\ UNCHANGED <<accountsDB, sessionVars, stores, syncVars, signInVars, mutVars,
                   ops, serverVars, aiRequests, historyVars, sealed, result>>

\* ... the ciphertext bytes are swapped for those of another record sealed
\* with the same key and iv, the tag left in place ...
SpliceCiphertext(data) ==
    /\ envelope # NoEnvelope
    /\ result = NotCalled
    /\ envelope' = [envelope EXCEPT !.data.ct =
                        GcmCiphertext(sealed.key, envelope.iv, JSONStringify(data))]
    /\ UNCHANGED <<accountsDB, sessionVars, stores, syncVars, signInVars, mutVars,
                   ops, serverVars, aiRequests, historyVars, sealed, result>>

\* ... encryptedObj.iv is changed ...
TamperIv(iv) ==
    /\ envelope # NoEnvelope
    /\ result = NotCalled
    /\ iv # envelope.iv
    /\ envelope' = [envelope EXCEPT !.iv = iv]
    /\ UNCHANGED <<accountsDB, sessionVars, stores, syncVars, signInVars, mutVars,
                   ops, serverVars, aiRequests, historyVars, sealed, result>>

\* ... or encryptedObj.version / encryptedObj.algorithm.
TamperVersion(version) ==
    /\ envelope # NoEnvelope
    /\ result = NotCalled
    /\ version # envelope.version
    /\ envelope' = [envelope EXCEPT !.version = version]
    /\ UNCHANGED <<accountsDB, sessionVars, stores, syncVars, signInVars, mutVars,
                   ops, serverVars, aiRequests, historyVars, sealed, result>>

TamperAlgorithm(algorithm) ==
    /\ envelope # NoEnvelope
    /\ result = NotCalled
    /\ algorithm # envelope.algorithm
    /\ envelope' = [envelope EXCEPT !.algorithm = algorithm]
    /\ UNCHANGED <<accountsDB, sessionVars, stores, syncVars, signInVars, mutVars,
                   ops, serverVars, aiRequests, historyVars, sealed, result>>

\* this.crypto.decrypt(encryptedObj) in the session as it is.
CallDecrypt ==
    /\ envelope # NoEnvelope
    /\ result' = [key |-> cryptoKey, envelope |-> envelope,
                  returned |-> decrypt(cryptoKey, envelope)]
    /\ UNCHANGED <<accountsDB, sessionVars, stores, syncVars, signInVars, mutVars,
                   ops, serverVars, aiRequests, historyVars, sealed, envelope>>

\* generateSalt draws 32 random bytes: no two accounts get the same salt.
FreshSalt ==
    IF accountsDB = <<>> THEN "s1" ELSE "s2"

CryptoRecords ==
    {[amount |-> 1],
     [amount |-> 2, category |-> "Food", type |-> "expense"]}

Versions ==
    {"1.0", "2.0"}

Algorithms ==
    {"AES-GCM", "AES-CBC"}

CryptoNext ==
    \/ \E n \in Names, p \in Passphrases : CreateAccount(n, p, FreshSalt)
    \/ \E a \in Range(AccountSeq), p \in Passphrases : SignInVerified(a, p)
    \/ SignInDone
    \/ SignOut
    \/ \E d \in CryptoRecords, iv \in IVs : CallEncrypt(d, iv)
    \/ TamperCiphertext
    \/ TamperTag
    \/ \E d \in CryptoRecords : SpliceCiphertext(d)
    \/ \E iv \in IVs : TamperIv(iv)
    \/ \E v \in Versions : TamperVersion(v)
    \/ \E a \in Algorithms : TamperAlgorithm(a)
    \/ CallDecrypt

\* Accounts, sessions and direct calls of encrypt and decrypt.
CryptoSpec ==
    Init /\ [][CryptoNext]_vars

(* --------------------------- envelope claims -------------------------- *)

\* C9: decrypt of the envelope encrypt returned, untouched and under the key
\* it was sealed with, returns a record equal to the one encrypted.
C9_RoundTrip ==
    (/\ result.envelope # NoEnvelope
     /\ result.envelope = sealed.envelope
     /\ result.key = sealed.key)
    => result.returned = Success(sealed.plain)

C9_OpenedUntouched ==
    /\ result.envelope # NoEnvelope
    /\ result.envelope = sealed.envelope
    /\ result.key = sealed.key
    /\ "type" \in DOMAIN sealed.plain

\* C10: decrypt throws, and returns no record, whenever the envelope's
\* ciphertext bytes, tag bytes or iv are not those encrypt produced, the
\* session key is not the one it was sealed with, the version is not '1.0'
\* or the algorithm is not 'AES-GCM'.
C10_FailsClosed ==
    (/\ result.envelope # NoEnvelope
     /\ \/ result.envelope.data.ct # sealed.envelope.data.ct
        \/ result.envelope.data.tag # sealed.envelope.data.tag
        \/ result.envelope.iv # sealed.envelope.iv
        \/ result.key # sealed.key
        \/ result.envelope.version # "1.0"
        \/ result.envelope.algorithm # "AES-GCM")
    => ~result.returned.ok

C10_OpenedTampered ==
    /\ result.envelope # NoEnvelope
    /\ result.key = sealed.key
    /\ result.envelope.version = "1.0"
    /\ result.envelope.algorithm = "AES-GCM"
    /\ result.envelope.iv = sealed.envelope.iv
    /\ result.envelope.data.tag = sealed.envelope.data.tag
    /\ result.envelope.data.ct # sealed.envelope.data.ct
    /\ ~result.returned.ok

(* --------------------- sessions over several accounts ----------------- *)

SessionNext ==
    \/ \E n \in Names, p \in Passphrases : CreateAccount(n, p, FreshSalt)
    \/ \E a \in Range(AccountSeq), p \in Passphrases : SignInVerified(a, p)
    \/ \E a \in Range(AccountSeq), p \in Passphrases : SignInThrows(a, p)
    \/ SignInDone
    \/ SignOut

\* Account creation, sign-in and sign-out over two accounts.
SessionSpec ==
    Init /\ [][SessionNext]_vars

(* ---------------------------- session claims -------------------------- *)

\* The passphrase the account was created with: the one its verifier is
\* the verifier of.
CreatedWith(account, passphrase) ==
    account.verifier = createVerifier(passphrase, account.salt)

\* C11: a signIn on an existing account with a passphrase other than the
\* creating one throws 'Invalid passphrase' and leaves key and store handle
\* as they were; with the creating passphrase it returns the account's
\* record and leaves the key derived from it and the account's store open.
C11_SignInChecksPassphrase ==
    [][/\ (signInReturn' # signInReturn /\ ~signInReturn'.returned.ok
              /\ HasAccount(signInReturn'.accountId))
          => /\ ~CreatedWith(GetAccount(signInReturn'.accountId),
                             signInReturn'.passphrase)
             /\ signInReturn'.returned = Failure("Invalid passphrase")
             /\ UNCHANGED <<cryptoKey, userDB>>
       /\ \A a \in Range(AccountSeq), p \in Passphrases :
            (HasAccount(a) /\ ENABLED SignInVerified(a, p))
                <=> (HasAccount(a) /\ signIns = <<>>
                        /\ CreatedWith(GetAccount(a), p))
       /\ (signIns # <<>> /\ signIns' = Tail(signIns))
          => LET call == Head(signIns)
             IN  /\ CreatedWith(GetAccount(call.accountId), call.passphrase)
                 /\ signInReturn'.returned = Success(GetAccount(call.accountId))
                 /\ cryptoKey' = deriveKey(call.passphrase,
                                           GetAccount(call.accountId).salt)
                 /\ userDB' = call.accountId]_vars

C11_WrongPassphraseRejected ==
    /\ signInReturn.returned = Failure("Invalid passphrase")
    /\ SignedIn
    /\ userDB = signInReturn.accountId

\* C12: every signIn that throws throws the same error, whether the account
\* id is unknown or the passphrase is wrong.
C12_OneSignInError ==
    (signInReturn # NotSignedInYet /\ ~signInReturn.returned.ok)
        => signInReturn.returned = Failure("Invalid passphrase")

(* ------------------------- the server on its own ---------------------- *)

\* A request in the middle of its handler: its body, the bundle being
\* written and how far the handler got.
ServerProc(body, bundle, pc) ==
    [body |-> body, bundle |-> bundle, pc |-> pc]

\* POST /api/sync answered 400 by validateSyncData; the route is not run.
PostSyncInvalid(body) ==
    /\ serverReq = <<>>
    /\ ~validateSyncData(body)
    /\ serverReply' = Reply("sync", body, 400, NoBundle)
    /\ UNCHANGED <<accountsDB, sessionVars, stores, syncVars, signInVars, mutVars,
                   ops, serverFiles, serverReq, apiVars, aiRequests, historyVars,
                   directCallVars>>

\* POST /api/sync past validation up to the middle of fs.writeFileSync:
\* the bundle is built and the temporary file holds a part of its text.
PostSyncWriteStarts(body) ==
    /\ serverReq = <<>>
    /\ validateSyncData(body)
    /\ LET bundle == SyncBundle(serverFiles, body)
       IN  /\ bundle.syncCount <= MaxSyncCount
           /\ serverFiles' = WriteFile(serverFiles,
                  TempFile(DataFile(body.accountId.text)), Part(bundle))
           /\ serverReq' = <<ServerProc(body, bundle, "writing")>>
    /\ UNCHANGED <<accountsDB, sessionVars, stores, syncVars, signInVars, mutVars,
                   ops, serverReply, apiVars, aiRequests, historyVars, directCallVars>>

\* fs.writeFileSync returns: the temporary file holds the whole text.
PostSyncWriteEnds ==
    /\ serverReq # <<>>
    /\ Head(serverReq).pc = "writing"
    /\ LET req == Head(serverReq)
       IN  /\ serverFiles' = WriteFile(serverFiles,
                  TempFile(DataFile(req.body.accountId.text)),
                  Whole(req.bundle))
           /\ serverReq' = <<[req EXCEPT !.pc = "written"]>>
    /\ UNCHANGED <<accountsDB, sessionVars, stores, syncVars, signInVars, mutVars,
                   ops, serverReply, apiVars, aiRequests, historyVars, directCallVars>>

\* fs.renameSync(tempFile, dataFile) and res.json(...).
PostSyncRenames ==
    /\ serverReq # <<>>
    /\ Head(serverReq).pc = "written"
    /\ LET req == Head(serverReq)
           dataFile == DataFile(req.body.accountId.text)
       IN  /\ serverFiles' = RenameFile(serverFiles, TempFile(dataFile), dataFile)
           /\ serverReply' = Reply("sync", req.body, 200, NoBundle)
    /\ serverReq' = <<>>
    /\ UNCHANGED <<accountsDB, sessionVars, stores, syncVars, signInVars, mutVars,
                   ops, apiVars, aiRequests, historyVars, directCallVars>>

\* The server process dies in the middle of a handler and is started again:
\* the request is never answered, the files stay as they are.
ServerCrash ==
    /\ serverReq # <<>>
    /\ serverReq' = <<>>
    /\ serverReply' = Reply("crash", Head(serverReq).body, 0, NoBundle)
    /\ UNCHANGED <<accountsDB, sessionVars, stores, syncVars, signInVars, mutVars,
                   ops, serverFiles, apiVars, aiRequests, historyVars, directCallVars>>

\* GET /api/data/:accountId: the stored bundle with a fresh lastSync, the
\* empty defaults when there is no file, 500 when the file cannot be parsed.
GetData(accountId) ==
    /\ serverReq = <<>>
    /\ LET request == [Wire(NoBody) EXCEPT !.accountId = JString(accountId)]
       IN  IF ~HasFile(serverFiles, accountId)
           THEN serverReply' = Reply("data", request, 200, NoBundle)
           ELSE LET existing == ReadJson(serverFiles[DataFile(accountId)])
                IN  IF existing.ok
                    THEN serverReply' = Reply("data", request, 200,
                            [existing.value EXCEPT !.lastSync = Timestamp])
                    ELSE serverReply' = Reply("data", request, 500, NoBundle)
    /\ UNCHANGED <<accountsDB, sessionVars, stores, syncVars, signInVars, mutVars,
                   ops, serverFiles, serverReq, apiVars, aiRequests, historyVars,
                   directCallVars>>

\* The requests the server is exercised with.
ServerDoc(type, n) ==
    [NoDoc EXCEPT !._id = DocId(type, n), !.type = type]

RequestAccountIds ==
    {JString("a1"), JString(""), JUndefined, JNumber("42")}

RequestTransactions ==
    {JUndefined, JArray(<<ServerDoc("transaction", 1)>>), JString("rows")}

RequestBudgets ==
    {JArray(<<>>), JArray(<<ServerDoc("budget", 2)>>), JNull}

RequestSettings ==
    {JUndefined, JObject("{theme}")}

Request(accountId, transactions, budgets, settings) ==
    [accountId |-> accountId,
     transactions |-> transactions,
     recurring_bills |-> JUndefined,
     goals |-> JArray(<<>>),
     budgets |-> budgets,
     reminders |-> JArray(<<>>),
     settings |-> settings]

ServerNext ==
    \/ \E a \in RequestAccountIds, t \in RequestTransactions,
          b \in RequestBudgets, st \in RequestSettings :
            \/ PostSyncInvalid(Request(a, t, b, st))
            \/ PostSyncWriteStarts(Request(a, t, b, st))
    \/ PostSyncWriteEnds
    \/ PostSyncRenames
    \/ ServerCrash
    \/ \E a \in Range(AccountSeq) : GetData(a)

\* The server under arbitrary requests, with crashes.
ServerSpec ==
    Init /\ [][ServerNext]_vars

(* ----------------------------- server claims -------------------------- *)

\* The bundle files proper: what the data directory holds under the names
\* that GET /api/data reads.
DataFiles(files) ==
    [p \in {q \in DOMAIN files : \E a \in Range(AccountSeq) : q = DataFile(a)}
        |-> files[p]]

\* C13: a bundle file changes only in the step that completes the rename
\* and answers the request, so a crash anywhere before leaves it as it was
\* (or absent); every bundle file holds a whole bundle at all times, and a
\* GET answers 200 only with a whole stored bundle or the empty defaults.
C13_AtomicBundleWrite ==
    [][/\ DataFiles(serverFiles') # DataFiles(serverFiles)
          => /\ serverReq # <<>>
             /\ Head(serverReq).pc = "written"
             /\ serverReply' = Reply("sync", Head(serverReq).body, 200, NoBundle)
       /\ \A p \in DOMAIN DataFiles(serverFiles') :
            serverFiles'[p].written = "all"
       /\ (serverReply'.route = "data" /\ serverReply'.status = 200)
          => LET id == serverReply'.request.accountId.text
             IN  IF HasFile(serverFiles, id)
                 THEN /\ serverFiles[DataFile(id)].written = "all"
                      /\ serverReply'.data =
                           [serverFiles[DataFile(id)].bundle
                               EXCEPT !.lastSync = Timestamp]
                 ELSE serverReply'.data = NoBundle]_vars

C13_CrashedBeforeRename ==
    /\ serverReply.route = "crash"
    /\ serverReq = <<>>
    /\ LET id == serverReply.request.accountId.text
       IN  /\ HasFile(serverFiles, id)
           /\ TempFile(DataFile(id)) \in DOMAIN serverFiles
           /\ serverFiles[TempFile(DataFile(id))].bundle
                 # serverFiles[DataFile(id)].bundle

\* The requests C14 is about, in its own words.
BadAccountId(body) ==
    \/ body.accountId.kind = "undefined"
    \/ body.accountId = JString("")
    \/ body.accountId.kind # "string"

BadGroup(body) ==
    \E g \in GroupNames :
        body[g].kind # "undefined" /\ body[g].kind # "array"

\* C14: a sync request with a missing, empty or non-string accountId, or
\* with a group that is present but not an array, never enters the route, is
\* answered 400 and leaves every file as it was.
C14_InvalidSyncRejected ==
    [][/\ \A i \in DOMAIN serverReq' :
            ~BadAccountId(serverReq'[i].body) /\ ~BadGroup(serverReq'[i].body)
       /\ (serverReply' # serverReply /\ serverReply'.route = "sync"
              /\ (BadAccountId(serverReply'.request)
                     \/ BadGroup(serverReply'.request)))
          => /\ serverReply'.status = 400
             /\ serverFiles' = serverFiles]_vars

C14_BadGroupRejected ==
    /\ serverReply.route = "sync"
    /\ serverReply.status = 400
    /\ ~BadAccountId(serverReply.request)
    /\ BadGroup(serverReply.request)
    /\ HasFile(serverFiles, serverReply.request.accountId.text)

\* The record groups and settings a request asks to store.
RequestedGroups(body) ==
    [g \in GroupNames |->
        IF body[g].kind = "array" THEN body[g].items ELSE <<>>]

RequestedSettings(body) ==
    IF body.settings.kind = "undefined" THEN JObject("{}") ELSE body.settings

StoredGroups(files, accountId) ==
    [g \in GroupNames |-> files[DataFile(accountId)].bundle[g]]

\* C15: when a sync is answered 200 the account's stored groups and settings
\* are exactly the request's (absent ones empty), whatever was stored
\* before, and handling the same request once more would store the same
\* groups and settings again.
C15_FullReplace ==
    [][(serverReply'.route = "sync" /\ serverReply'.status = 200
           /\ serverReq # <<>>)
       => LET body == serverReply'.request
              id == body.accountId.text
              again == SyncRoute(serverFiles', body)
          IN  /\ HasFile(serverFiles', id)
              /\ StoredGroups(serverFiles', id) = RequestedGroups(body)
              /\ serverFiles'[DataFile(id)].bundle.settings
                    = RequestedSettings(body)
              /\ StoredGroups(again, id) = StoredGroups(serverFiles', id)
              /\ again[DataFile(id)].bundle.settings
                    = serverFiles'[DataFile(id)].bundle.settings]_vars

C15_ReplacedNonEmpty ==
    /\ serverReply.route = "sync"
    /\ serverReply.status = 200
    /\ serverReply.request.transactions.kind = "undefined"
    /\ LET id == serverReply.request.accountId.text
       IN  /\ HasFile(serverFiles, id)
           /\ serverFiles[DataFile(id)].bundle.syncCount >= 1
           /\ serverFiles[DataFile(id)].bundle.transactions = <<>>

(* ------------------- reads across sessions and accounts --------------- *)

ReadTypes ==
    {"transaction"}

ReadRecords ==
    {[amount |-> 1], [amount |-> 2, type |-> "expense"]}

\* A stored envelope is damaged at rest: bits of its ciphertext flip.
CorruptStored(accountId, id) ==
    /\ muts = <<>>
    /\ HasDoc(stores[accountId], id)
    /\ GetDoc(stores[accountId], id).encryptedData.data.ct.flip = 0
    /\ stores' = [stores EXCEPT ![accountId] =
          (@ \ {GetDoc(@, id)})
             \cup {[GetDoc(@, id) EXCEPT !.encryptedData.data.ct.flip = 1]}]
    /\ UNCHANGED <<accountsDB, sessionVars, syncVars, signInVars, mutVars, ops,
                   serverVars, aiRequests, historyVars, directCallVars>>

\* The first account is made with one passphrase, the second with the other.
FreshPassphrase ==
    IF accountsDB = <<>> THEN "p1" ELSE "p2"

\* getRandomValues draws an iv; successive draws differ.
FreshIv ==
    ops % (MaxIv + 1)

ReadNext ==
    \/ \E n \in Names : CreateAccount(n, FreshPassphrase, FreshSalt)
    \/ \E a \in Range(AccountSeq), p \in Passphrases : SignInVerified(a, p)
    \/ SignInDone
    \/ SignOut
    \/ \E t \in ReadTypes, d \in ReadRecords : SaveCall(t, d, FreshIv)
    \/ \E id \in StoredIds : LoadCall("update", id)
    \/ \E d \in ReadRecords : UpdateGot(d, FreshIv)
    \/ PutIssued
    \/ PutDone
    \/ \E a \in Range(AccountSeq) : \E id \in {d._id : d \in stores[a]} :
          CorruptStored(a, id)

\* Saves, updates and reads over two accounts and any number of sessions.
ReadSpec ==
    Init /\ [][ReadNext]_vars

\* The key every session of the account holds: the one derived from the
\* passphrase the account was made with and the account's salt.
AccountKey(accountId) ==
    LET account == GetAccount(accountId)
    IN  deriveKey(CHOOSE p \in Passphrases : CreatedWith(account, p),
                  account.salt)

\* The doc holds the record as a session of the account sealed it.
HoldsRecord(accountId, doc, record) ==
    \E iv \in IVs :
        doc.encryptedData = encrypt(AccountKey(accountId), iv, record).value

\* getAll has an entry for the doc that carries every field of the record.
Returned(doc, record) ==
    \E i \in DOMAIN getAll :
        /\ getAll[i]._id = doc._id
        /\ \A f \in DOMAIN record : getAll[i][f] = record[f]

\* C19: in every session of an account, whatever sessions came before it,
\* getAll returns each record that a session of that account sealed and
\* stored, with the contents it was saved or updated with.
C19_ReadableInLaterSessions ==
    SignedIn =>
        /\ cryptoKey = AccountKey(userDB)
        /\ \A doc \in stores[userDB] : \A record \in ReadRecords :
              HoldsRecord(userDB, doc, record) => Returned(doc, record)

\* The first save of the run was made in a session of a1, the second in a
\* later session of a2, and a session of a1 opened after both reads the first.
C19_ReadInThirdSession ==
    /\ userDB = "a1" /\ signIns = <<>> /\ muts = <<>>
    /\ \E doc \in stores["a1"] :
          /\ doc._id = DocId("transaction", 1)
          /\ HoldsRecord("a1", doc, [amount |-> 2, type |-> "expense"])
          /\ Returned(doc, [amount |-> 2, type |-> "expense"])
    /\ \E doc \in stores["a2"] :
          /\ doc._id = DocId("transaction", 2)
          /\ \E record \in ReadRecords : HoldsRecord("a2", doc, record)

\* The docs of the open store that decrypt under the session key.
Decryptable ==
    IF userDB = NULL THEN {}
    ELSE {doc \in stores[userDB] : decrypt(cryptoKey, doc.encryptedData).ok}

\* C20: getAll returns one entry for each stored doc that decrypts under
\* the session key, in allDocs order, and none for any other doc; getByType
\* returns every such entry of the type asked for.
C20_BadRecordsSkipped ==
    /\ Len(getAll) = Cardinality(Decryptable)
    /\ {getAll[i]._id : i \in DOMAIN getAll} = {doc._id : doc \in Decryptable}
    /\ \A doc \in Decryptable :
          LET entry == Entry(doc, decrypt(cryptoKey, doc.encryptedData).value)
          IN  /\ \E i \in DOMAIN getAll : getAll[i] = entry
              /\ \E i \in DOMAIN getByType(entry.type) :
                    getByType(entry.type)[i] = entry

\* A doc that does not decrypt sorts before one that does, and getAll
\* returns the second alone.
C20_BadBeforeGood ==
    /\ SignedIn /\ signIns = <<>>
    /\ Len(getAll) = 1
    /\ \E bad \in stores[userDB] \ Decryptable : \E good \in Decryptable :
          IdLess(bad._id, good._id)

(* ------------------- update and delete of any id ---------------------- *)

\* Every id a caller may hand to update or delete, stored or not.
CrudIds ==
    {DocId(t, n) : t \in SyncTypes, n \in 1..MaxOps}

CrudNext ==
    \/ \E n \in Names : NextAccountId \in SyncAccounts /\ CreateAccount(n, "p1", "s1")
    \/ \E a \in SyncAccounts : SignInVerified(a, "p1")
    \/ SignInDone
    \/ SignOut
    \/ \E t \in SyncTypes, d \in SyncRecords : SaveCall(t, d, 0)
    \/ \E id \in CrudIds : LoadCall("update", id)
    \/ \E id \in CrudIds : LoadCall("delete", id)
    \/ \E d \in SyncRecords : UpdateGot(d, 0)
    \/ DeleteGot
    \/ PutIssued
    \/ PutDone
    \/ Tick
    \/ \E i \in DOMAIN timers : TimerFires(i)
    \/ \E i \in DOMAIN syncs : AllDocsResolved(i)
    \/ \E i \in DOMAIN syncs : ServerSync(i)
    \/ \E i \in DOMAIN syncs : ServerRejects(i)
    \/ \E i \in DOMAIN syncs : SyncResponse(i)
    \/ \E i \in DOMAIN syncs : TransportFails(i)

\* The client with update and delete called on any id.
CrudSpec ==
    Init /\ [][CrudNext]_vars

\* An update or delete call comes back from userDB.get.
GetSettles_Step ==
    /\ muts # <<>>
    /\ Head(muts).stage = "get"
    /\ muts' # muts

\* C21: when update or delete is called with an id that the store of the
\* signed-in account does not hold, the call rejects with the not-found
\* error, the store stays as it was and no sync is scheduled.
C21_UnknownIdRejected ==
    [][(GetSettles_Step /\ ~HasDoc(stores[Head(muts).db], Head(muts).id))
       => /\ muts' = <<>>
          /\ mutReturn'.op = Head(muts).op
          /\ mutReturn'.returned = Failure("not_found")
          /\ stores' = stores
          /\ pendingSync' = pendingSync /\ timers' = timers
          /\ syncs' = syncs]_vars

\* A delete of an unknown id was rejected in a session that holds records
\* and has no sync scheduled.
C21_DeleteOfUnknownId ==
    /\ SignedIn /\ stores[userDB] # {}
    /\ mutReturn = Rejected("delete", "not_found")
    /\ ~pendingSync /\ timers = <<>> /\ syncs = <<>>

\* A step of the network or of syncToServer: a request is sent, answered,
\* refused or lost, or the sync status changes.
Network_Step ==
    \/ syncs' # syncs
    \/ serverVars' # serverVars
    \/ syncStatus' # syncStatus
    \/ isSyncing' # isSyncing

\* A save, update or delete call settles.
CallSettles_Step ==
    muts # <<>> /\ muts' = <<>>

\* The errors save, update and delete reject with, all raised by the local
\* store or by encrypt.
LocalErrors ==
    {"not called", "not_found", "conflict", "No encryption key", "TypeError"}

\* C22: no step of the network or of syncToServer changes the local store
\* or a save/update/delete call or its outcome; a call settles by the local
\* store alone (the put applied, or a local rejection with the store left as
\* it was), whatever the sync is doing; no call rejects with a sync error.
C22_CrudIgnoresNetwork ==
    [][/\ Network_Step => (stores' = stores /\ mutVars' = mutVars)
       /\ CallSettles_Step =>
             LET m == Head(muts)
             IN  IF m.stage = "put" /\ PutAccepted(stores[m.db], m)
                 THEN /\ stores' = [stores EXCEPT ![m.db] = PutApplied(@, m)]
                      /\ mutReturn'.returned.ok
                 ELSE /\ stores' = stores
                      /\ ~mutReturn'.returned.ok
       /\ \/ mutReturn'.returned.ok
          \/ mutReturn'.returned.error \in LocalErrors]_vars

\* An update resolved and its record is stored, after a sync failed or the
\* session was closed, while a sync is waiting for an answer.
C22_UpdatedWhileOffline ==
    /\ mutReturn = Resolved("update", <<>>)
    /\ syncStatus = "syncing"
    /\ \E i \in DOMAIN syncs : syncs[i].stage = "sent"
    /\ ~clean
    /\ \E doc \in stores["a1"] : doc._rev = 2

(* -------------------- the /api routes behind the limiter -------------- *)

\* serverConfig.rateLimitRequests, scaled down.
RateLimitMax ==
    2

\* Requests the limiter has counted and not yet forgotten, at most.
MaxRequests ==
    3

\* req.params as the limiter sees it: it is mounted with app.use('/api'),
\* whose path has no :accountId, so req.params.accountId is undefined there.
ParamsAtMount ==
    JUndefined

\* keyGenerator: req.body?.accountId || req.params?.accountId || 'anonymous',
\* then `${accountId}_${req.ip}`.
LimitKey(body, ip) ==
    <<OrElse(body.accountId, OrElse(ParamsAtMount, JString("anonymous"))).text,
      ip>>

RECURSIVE SumHits(_)
SumHits(keys) ==
    IF keys = {} THEN 0
    ELSE LET k == CHOOSE k \in keys : TRUE
         IN  hits[k] + SumHits(keys \ {k})

\* fs.unlinkSync(path)
Unlink(files, path) ==
    [p \in DOMAIN files \ {path} |-> files[p]]

\* GET /api/data/:accountId: status and bundle answered.
GetRoute(files, accountId) ==
    IF ~HasFile(files, accountId)
    THEN [status |-> 200, data |-> NoBundle]
    ELSE LET existing == ReadJson(files[DataFile(accountId)])
         IN  IF existing.ok
             THEN [status |-> 200,
                   data |-> [existing.value EXCEPT !.lastSync = Timestamp]]
             ELSE [status |-> 500, data |-> NoBundle]

\* A route that takes any confirmDelete that is present.
DeleteRoute_AnyConfirmation(files, accountId, confirmDelete) ==
    IF ~Truthy(confirmDelete)
    THEN [files |-> files, status |-> 400]
    ELSE [files |-> IF HasFile(files, accountId)
                    THEN Unlink(files, DataFile(accountId))
                    ELSE files,
          status |-> 200]

\* DELETE /api/data/:accountId: the files it leaves and the status answered.
DeleteRoute(files, accountId, confirmDelete) ==
    IF confirmDelete # JString("DELETE_ALL_DATA")
    THEN [files |-> files, status |-> 400]
    ELSE [files |-> IF HasFile(files, accountId)
                    THEN Unlink(files, DataFile(accountId))
                    ELSE files,
          status |-> 200]

\* The limiter counts the request under its key; past max it answers 429
\* and the route is not run.
Limited(key) ==
    hits[key] + 1 > RateLimitMax

Counted(key) ==
    /\ serverReq = <<>>
    /\ SumHits(LimitKeys) < MaxRequests
    /\ hits' = [hits EXCEPT ![key] = @ + 1]

Answered(route, param, body, confirmDelete, ip, status, data) ==
    /\ apiCall' = ApiCall(route, param, body, confirmDelete, ip, status, data)
    /\ serverReply' = Reply(route, body, status, data)

\* POST /api/sync, from the limiter to the answer.
ApiSync(body, ip) ==
    /\ Counted(LimitKey(body, ip))
    /\ IF Limited(LimitKey(body, ip))
       THEN /\ Answered("sync", "", body, JUndefined, ip, 429, NoBundle)
            /\ UNCHANGED serverFiles
       ELSE IF validateSyncData(body)
            THEN /\ SyncBundle(serverFiles, body).syncCount <= MaxSyncCount
                 /\ serverFiles' = SyncRoute(serverFiles, body)
                 /\ Answered("sync", "", body, JUndefined, ip, 200, NoBundle)
            ELSE /\ UNCHANGED serverFiles
                 /\ Answered("sync", "", body, JUndefined, ip, 400, NoBundle)
    /\ UNCHANGED <<accountsDB, sessionVars, stores, syncVars, signInVars,
                   mutVars, ops, serverReq, aiRequests, historyVars,
                   directCallVars>>

\* GET /api/data/:accountId, from the limiter to the answer.
ApiGet(accountId, body, ip) ==
    /\ Counted(LimitKey(body, ip))
    /\ IF Limited(LimitKey(body, ip))
       THEN Answered("data", accountId, body, JUndefined, ip, 429, NoBundle)
       ELSE LET got == GetRoute(serverFiles, accountId)
            IN  Answered("data", accountId, body, JUndefined, ip,
                         got.status, got.data)
    /\ UNCHANGED <<accountsDB, sessionVars, stores, syncVars, signInVars,
                   mutVars, ops, serverFiles, serverReq, aiRequests,
                   historyVars, directCallVars>>

\* DELETE /api/data/:accountId, from the limiter to the answer.
ApiDelete(accountId, body, confirmDelete, ip) ==
    /\ Counted(LimitKey(body, ip))
    /\ IF Limited(LimitKey(body, ip))
       THEN /\ Answered("delete", accountId, body, confirmDelete, ip, 429,
                        NoBundle)
            /\ UNCHANGED serverFiles
       ELSE LET done == DeleteRoute(serverFiles, accountId, confirmDelete)
            IN  /\ serverFiles' = done.files
                /\ Answered("delete", accountId, body, confirmDelete, ip,
                            done.status, NoBundle)
    /\ UNCHANGED <<accountsDB, sessionVars, stores, syncVars, signInVars,
                   mutVars, ops, serverReq, aiRequests, historyVars,
                   directCallVars>>

\* The window of a key ends: the limiter forgets its count.
WindowEnds(key) ==
    /\ hits[key] > 0
    /\ hits' = [hits EXCEPT ![key] = 0]
    /\ UNCHANGED <<accountsDB, sessionVars, stores, syncVars, signInVars,
                   mutVars, ops, serverFiles, serverReq, serverReply, apiCall,
                   aiRequests, historyVars, directCallVars>>

\* req.body of a request without a JSON body: {}.
NoJsonBody ==
    [accountId |-> JUndefined, transactions |-> JUndefined,
     recurring_bills |-> JUndefined, goals |-> JUndefined,
     budgets |-> JUndefined, reminders |-> JUndefined,
     settings |-> JUndefined]

\* Each client syncs a record of its own.
ApiRecordOf ==
    [a \in ApiAccountIds |->
        CASE a = "a1" -> 1 [] a = "a2" -> 2 [] OTHER -> 3]

\* The bodies POST /api/sync is exercised with.
ApiSyncBodies ==
    {Request(JString(a), JArray(<<ServerDoc("transaction", ApiRecordOf[a])>>),
             JArray(<<>>), JUndefined) : a \in ApiAccountIds}

Confirmations ==
    {JString("DELETE_ALL_DATA"), JUndefined, JString("delete")}

ApiNext ==
    \/ \E body \in ApiSyncBodies, ip \in Ips : ApiSync(body, ip)
    \/ \E a \in ApiParams, ip \in Ips : ApiGet(a, NoJsonBody, ip)
    \/ \E a \in ApiParams, c \in Confirmations, ip \in Ips :
          ApiDelete(a, NoJsonBody, c, ip)
    \/ \E key \in LimitKeys : WindowEnds(key)

\* The server's data routes behind the rate limiter, under any requests.
ApiSpec ==
    Init /\ [][ApiNext]_vars

\* The limiter counted a request.
Counted_Step ==
    \E k \in LimitKeys : hits'[k] > hits[k]

\* The accountId a request is for: the body's on POST /api/sync, the URL's
\* on the /api/data routes.
NamedAccount(call) ==
    IF call.route = "sync" THEN call.body.accountId.text ELSE call.param

\* C23: a request is counted under the pair of the accountId it is for and
\* the address it comes from, and under no other; it is answered 429 only
\* when that pair had already reached the maximum in the window, and then
\* the route does not run.
C23_KeyedByAccountAndAddress ==
    [][Counted_Step
       => LET pair == <<NamedAccount(apiCall'), apiCall'.ip>>
          IN  /\ \A k \in LimitKeys \ {pair} : hits'[k] = hits[k]
              /\ apiCall'.status = 429
                    => /\ pair \in LimitKeys
                       /\ hits[pair] >= RateLimitMax
                       /\ serverFiles' = serverFiles]_vars

\* C24: a DELETE /api/data/:accountId that reaches its route removes the
\* bundle exactly when req.body.confirmDelete is the string
\* 'DELETE_ALL_DATA'; with any other or no confirmDelete it is answered 400
\* and every file is left as it was.
C24_DeleteNeedsConfirmation ==
    [][(Counted_Step /\ apiCall'.route = "delete" /\ apiCall'.status # 429)
       => IF apiCall'.confirmDelete = JString("DELETE_ALL_DATA")
          THEN /\ apiCall'.status = 200
               /\ ~HasFile(serverFiles', apiCall'.param)
          ELSE /\ apiCall'.status = 400
               /\ serverFiles' = serverFiles]_vars

\* A DELETE with the wrong string was answered 400 and the bundle it named
\* is still stored.
C24_RefusedWithoutConfirmation ==
    /\ apiCall.route = "delete"
    /\ apiCall.status = 400
    /\ apiCall.confirmDelete = JString("delete")
    /\ HasFile(serverFiles, apiCall.param)

\* The path lies inside the data directory.
InsideDataDir(path) ==
    /\ Len(path) > Len(DbDir)
    /\ SubSeq(path, 1, Len(DbDir)) = DbDir

\* The paths whose file a step creates, replaces or removes.
ChangedPaths ==
    {p \in DOMAIN serverFiles \cup DOMAIN serverFiles' :
        \/ p \notin DOMAIN serverFiles
        \/ p \notin DOMAIN serverFiles'
        \/ serverFiles'[p] # serverFiles[p]}

\* The bundle files of the accounts other than the one a request is for.
BundlesOfOthers(accountId) ==
    {DataFile(b) : b \in {"a1", "a2"} \ {accountId}}

\* C30: a sync, get or delete for an accountId changes no file outside the
\* data directory and no bundle file of another accountId, and a get
\* returns no bundle read from such a file.
C30_AccountIsolation ==
    [][(Counted_Step /\ apiCall'.status = 200)
       => LET a == NamedAccount(apiCall')
          IN  /\ \A p \in ChangedPaths :
                    InsideDataDir(p) /\ p \notin BundlesOfOthers(a)
              /\ (apiCall'.route = "data" /\ HasFile(serverFiles, a))
                    => DataFile(a) \notin BundlesOfOthers(a)]_vars

(* ------------------- calls issued without awaiting -------------------- *)

\* The records a caller saves and updates with.
OrderRecords ==
    {[amount |-> 1], [amount |-> 2]}

\* A caller that issues a second save/update/delete before the first has
\* settled.  muts keeps the calls in the order issued.
OrderNext ==
    \/ \E n \in Names : NextAccountId \in SyncAccounts /\ CreateAccount(n, "p1", "s1")
    \/ \E a \in SyncAccounts : SignInVerified(a, "p1")
    \/ SignInDone
    \/ \E t \in SyncTypes, d \in OrderRecords : SaveCallUpTo(2, t, d, 0)
    \/ \E id \in StoredIds : LoadCallUpTo(2, "update", id)
    \/ \E id \in StoredIds : LoadCallUpTo(2, "delete", id)
    \/ \E i \in DOMAIN muts, d \in OrderRecords : UpdateGotAt(i, d, 0)
    \/ \E i \in DOMAIN muts : DeleteGotAt(i)
    \/ \E i \in DOMAIN muts : PutIssuedAt(i)
    \/ \E i \in DOMAIN muts : PutDoneAt(i)

OrderSpec ==
    Init /\ [][OrderNext]_vars

\* The put or remove of the i-th call under way is applied to the store.
Applied_Step(i) ==
    /\ muts[i].stage = "put"
    /\ PutAccepted(stores[muts[i].db], muts[i])
    /\ muts' = RemoveAt(muts, i)
    /\ stores' = [stores EXCEPT ![muts[i].db] = PutApplied(@, muts[i])]

\* C25: when the write of a call is applied, no call issued after it on the
\* same record has already read the record: such a call holds the revision
\* just replaced, so its own write will be refused and the later-issued
\* mutation is lost to the earlier-issued one.
C25_IssueOrderKept ==
    [][\A i \in DOMAIN muts :
          Applied_Step(i)
             => \A j \in DOMAIN muts :
                   (j > i /\ muts[j].id = muts[i].id) => muts[j].stage = "get"]_vars

(* ------------------- batches over every record type ------------------- *)

BatchNext ==
    \/ \E n \in Names : NextAccountId \in SyncAccounts /\ CreateAccount(n, "p1", "s1")
    \/ \E a \in SyncAccounts : SignInVerified(a, "p1")
    \/ SignInDone
    \/ \E t \in Types, d \in SyncRecords : SaveCall(t, d, 0)
    \/ \E id \in StoredIds : LoadCall("update", id)
    \/ \E id \in StoredIds : LoadCall("delete", id)
    \/ \E d \in SyncRecords : UpdateGot(d, 0)
    \/ DeleteGot
    \/ PutIssued
    \/ PutDone
    \/ Tick
    \/ \E i \in DOMAIN timers : TimerFires(i)
    \/ \E i \in DOMAIN syncs : AllDocsResolved(i)
    \/ \E i \in DOMAIN syncs : ServerSync(i)
    \/ \E i \in DOMAIN syncs : SyncResponse(i)

\* One session saving records of every type, with its syncs.
BatchSpec ==
    Init /\ [][BatchNext]_vars

\* syncToServer builds the batch of the i-th sync under way.
BatchBuilt_Step(i) ==
    /\ i \in DOMAIN syncs /\ i \in DOMAIN syncs'
    /\ syncs[i].stage = "allDocs"
    /\ syncs'[i].stage = "sent"

\* How many times the doc occurs in the record groups of a batch.
RECURSIVE Occurrences(_, _, _)
Occurrences(body, doc, groups) ==
    IF groups = {} THEN 0
    ELSE LET g == CHOOSE g \in groups : TRUE
         IN  Cardinality({k \in DOMAIN body[g] : body[g][k] = doc})
                 + Occurrences(body, doc, groups \ {g})

\* C26: the batch a sync builds holds every doc of the local store, as the
\* store is at that moment, once and in one record group, and holds nothing
\* that is not in the store.
C26_BatchIsSnapshot ==
    [][\A i \in DOMAIN syncs :
          BatchBuilt_Step(i)
             => LET body == syncs'[i].body
                    docs == stores[syncs[i].db]
                IN  /\ \A doc \in docs : Occurrences(body, doc, GroupNames) = 1
                    /\ \A g \in GroupNames : \A k \in DOMAIN body[g] :
                          body[g][k] \in docs]_vars

\* A batch was built from a store holding three records of two types.
C26_BatchOfTwoTypes ==
    \E i \in DOMAIN syncs :
        /\ syncs[i].stage = "sent"
        /\ Len(syncs[i].body.transactions) = 2
        /\ Len(syncs[i].body.budgets) = 1
        /\ Cardinality(stores[syncs[i].db]) = 3

\* C27: every step of the server leaves the stored record groups of an
\* account as they were or replaces all of them by the groups of the one
\* request being handled; the groups of two requests are never mixed.
C27_WholeBundleLastWriteWins ==
    [][\A a \in Range(AccountSeq) :
          (HasFile(serverFiles', a)
              /\ ~(HasFile(serverFiles, a)
                      /\ StoredGroups(serverFiles', a) = StoredGroups(serverFiles, a)))
             => /\ serverReq # <<>>
                /\ Head(serverReq).body.accountId = JString(a)
                /\ StoredGroups(serverFiles', a)
                      = RequestedGroups(Head(serverReq).body)]_vars

\* A second request for an account with a stored bundle is about to replace
\* it by groups that differ in transactions and in budgets.
C27_SecondSyncAboutToWin ==
    /\ serverReq # <<>>
    /\ Head(serverReq).pc = "written"
    /\ LET a == Head(serverReq).body.accountId.text
       IN  /\ HasFile(serverFiles, a)
           /\ StoredGroups(serverFiles, a).transactions
                 # RequestedGroups(Head(serverReq).body).transactions
           /\ StoredGroups(serverFiles, a).budgets
                 # RequestedGroups(Head(serverReq).body).budgets

\* C28: pendingSync is set only while a debounce timer is outstanding.
C28_PendingOnlyWithTimer ==
    pendingSync => timers # <<>>

\* Two accounts on one device: signIn and signOut interleaved with the awaits
\* of syncToServer.  signIn assigns crypto.accountId before its key
\* derivation is awaited and before userDB is replaced.
SwitchOps ==
    2

SwitchAccounts ==
    {"a1", "a2"}

SwitchNext ==
    \/ \E n \in Names : NextAccountId \in SwitchAccounts /\ CreateAccount(n, "p1", "s1")
    \/ \E a \in SwitchAccounts : SignInVerified(a, "p1")
    \/ SignInDone
    \/ SignOut
    \/ \E t \in SyncTypes, d \in SyncRecords : ops < SwitchOps /\ SaveCall(t, d, 0)
    \/ PutIssued
    \/ PutDone
    \/ Tick
    \/ \E i \in DOMAIN timers : TimerFires(i)
    \/ \E i \in DOMAIN syncs : AllDocsResolved(i)
    \/ \E i \in DOMAIN syncs : ServerSync(i)
    \/ \E i \in DOMAIN syncs : SyncResponse(i)

SwitchSpec ==
    Init /\ [][SwitchNext]_vars

\* C29: every sync batch that has been built carries the accountId of the
\* account whose local store its records were read from.
C29_BatchNamesItsStore ==
    \A i \in DOMAIN syncs :
        syncs[i].stage # "allDocs" => syncs[i].body.accountId = syncs[i].db

====
